---- MODULE Spec2Model ----
(***************************************************************************)
(* Ripple: a reactive dataflow language.  The model covers the compiler    *)
(* orchestrator (static checks, rank assignment, node registration,        *)
(* initialisation), the graph engine (rank-ordered propagation over a      *)
(* binary heap) and the circular-dependency detector.                      *)
(*                                                                         *)
(* Names are dotted paths.  A name is modelled as the sequence of its      *)
(* segments: "p.x" is <<"p","x">>, so that f"{a}.{b}", '.' in d and        *)
(* d.split('.')[0] are computed, not assumed.                              *)
(***************************************************************************)
EXTENDS Integers, Sequences, FiniteSets, TLC

(* ------------------------------ bounds -------------------------------- *)

\* pushes issued to one engine
MaxPushes == 3
\* nodes of the graphs handed to the cycle detector on its own
MaxGraphNodes == 3
\* recomputations of one pass that are kept on record
MaxPassEvals == 6

(* ------------------------------- names -------------------------------- *)

Nm(s) == <<s>>
NoName == <<>>
Dotted(base, field_name) == base \o <<field_name>>
HasDot(d) == Len(d) > 1
BaseName(d) == <<d[1]>>

SeqToSet(s) == {s[i] : i \in 1..Len(s)}

IndexOf(s, x) == CHOOSE i \in 1..Len(s) : s[i] = x /\ \A j \in 1..(i-1) : s[j] # x

\* The elements of set S as a list, in the iteration order `ord` (a list
\* in which every element of S occurs).  Python iterates a set of strings
\* in an order fixed by the hash seed of the process.
RECURSIVE SetIter(_, _)
SetIter(S, ord) ==
    IF ord = <<>> THEN <<>>
    ELSE IF Head(ord) \in S THEN <<Head(ord)>> \o SetIter(S, Tail(ord))
         ELSE SetIter(S, Tail(ord))

Reverse(s) == [i \in 1..Len(s) |-> s[Len(s) + 1 - i]]

RECURSIVE SeqMax(_)
SeqMax(s) ==
    IF s = <<>> THEN 0
    ELSE LET m == SeqMax(Tail(s)) IN IF Head(s) > m THEN Head(s) ELSE m

(* ------------------------------ values -------------------------------- *)

IntV(n) == [t |-> "int", v |-> n]
NoneV == [t |-> "none", v |-> 0]
StructV(f) == [t |-> "struct", v |-> f]
\* a Python list, as the sequence of its elements
ArrayV(elems) == [t |-> "array", v |-> elems]
\* a raised exception, as the result of an evaluation
ErrV == [t |-> "err", v |-> 0]

IsErr(x) == x.t = "err"

\* A Python float, as the fraction n/d in lowest terms with d > 0; 1/0 is
\* inf, -1/0 is -inf and 0/0 is nan.
RECURSIVE Gcd(_, _)
Gcd(a, b) == IF b = 0 THEN a ELSE Gcd(b, a % b)
Abs(n) == IF n < 0 THEN -n ELSE n
Sign(n) == IF n < 0 THEN -1 ELSE IF n > 0 THEN 1 ELSE 0
FloatV(n, d) ==
    IF d = 0 THEN [t |-> "float", v |-> [n |-> Sign(n), d |-> 0]]
    ELSE LET g == Gcd(Abs(n), Abs(d)) IN
         [t |-> "float", v |-> [n |-> (Sign(d) * n) \div g, d |-> Abs(d) \div g]]
InfV == FloatV(1, 0)
IsNumber(x) == x.t \in {"int", "float"}
Numer(x) == IF x.t = "int" THEN x.v ELSE x.v.n
Denom(x) == IF x.t = "int" THEN 1 ELSE x.v.d
IsNan(x) == x.t = "float" /\ x.v.n = 0 /\ x.v.d = 0
\* int == float and float == float compare the numbers; nan equals nothing
NumEq(a, b) == ~IsNan(a) /\ ~IsNan(b) /\ Numer(a) = Numer(b) /\ Denom(a) = Denom(b)

\* Python ==, deep on dicts
RECURSIVE PyEq(_, _)
PyEq(a, b) ==
    IF IsNumber(a) /\ IsNumber(b) THEN NumEq(a, b)
    ELSE IF a.t # b.t THEN FALSE
    ELSE IF a.t = "struct"
         THEN /\ DOMAIN a.v = DOMAIN b.v
              /\ \A f \in DOMAIN a.v : PyEq(a.v[f], b.v[f])
    ELSE IF a.t = "array"
         THEN /\ Len(a.v) = Len(b.v)
              /\ \A i \in 1..Len(a.v) : PyEq(a.v[i], b.v[i])
         ELSE a.v = b.v

\* Python truthiness
Truthy(x) ==
    CASE x.t = "int" -> x.v # 0
      [] x.t = "float" -> ~(x.v.n = 0 /\ x.v.d = 1)
      [] x.t = "struct" -> DOMAIN x.v # {}
      [] x.t = "array" -> Len(x.v) > 0
      [] OTHER -> FALSE

(* ---------------------------- expressions ----------------------------- *)

Nil == [k |-> "nil"]
Lit(n) == [k |-> "lit", value |-> n]
\* a float literal, written as the fraction it stands for
FloatLit(n, d) == [k |-> "flit", n |-> n, d |-> d]
Id(s) == [k |-> "id", name |-> s]
Bin(op, l, r) == [k |-> "bin", operator |-> op, left |-> l, right |-> r]
IfE(c, a, b) == [k |-> "if", condition |-> c, then_branch |-> a, else_branch |-> b]
StructLit(names, exprs) == [k |-> "struct", names |-> names, exprs |-> exprs]
Pre(s, init) == [k |-> "pre", stream_name |-> s, initial_value |-> init]
Field(obj, f) == [k |-> "field", object |-> obj, field_name |-> f]
ArrayLit(elements) == [k |-> "array", elements |-> elements]
\* fold(stream, initial, (parameters) => body)
Fold(stream, initial, parameters, body) ==
    [k |-> "fold", stream |-> stream, initial |-> initial,
     parameters |-> parameters, body |-> body]

RECURSIVE _get_field_path(_)
_get_field_path(expr) ==
    IF expr.k = "field"
    THEN LET base_path == _get_field_path(expr.object) IN
         IF base_path # NoName THEN Dotted(base_path, expr.field_name) ELSE NoName
    ELSE IF expr.k = "id" THEN Nm(expr.name)
    ELSE NoName

RECURSIVE visit(_, _)
visit(node, locals_set) ==
    CASE node.k = "id" ->
           IF node.name \notin locals_set THEN {Nm(node.name)} ELSE {}
      [] node.k = "bin" ->
           visit(node.left, locals_set) \cup visit(node.right, locals_set)
      [] node.k = "if" ->
           visit(node.condition, locals_set) \cup visit(node.then_branch, locals_set)
             \cup visit(node.else_branch, locals_set)
      [] node.k = "pre" ->
           IF node.stream_name \notin locals_set THEN {Nm(node.stream_name)} ELSE {}
      [] node.k = "fold" ->
           visit(node.stream, locals_set) \cup visit(node.initial, locals_set)
             \cup visit(node.body, locals_set \cup SeqToSet(node.parameters))
      [] node.k = "array" ->
           UNION {visit(node.elements[i], locals_set) : i \in 1..Len(node.elements)}
      [] node.k = "struct" ->
           UNION {visit(node.exprs[i], locals_set) : i \in 1..Len(node.exprs)}
      [] node.k = "field" ->
           LET field_path == _get_field_path(node) IN
           IF field_path # NoName /\ field_path[1] \notin locals_set
           THEN {field_path} ELSE {}
      [] OTHER -> {}

extract_dependencies(expr) == visit(expr, {})

RECURSIVE is_stateful_expr(_)
is_stateful_expr(expr) ==
    CASE expr.k = "pre" -> TRUE
      [] expr.k = "fold" -> TRUE
      [] expr.k = "array" ->
           \E i \in 1..Len(expr.elements) : is_stateful_expr(expr.elements[i])
      [] expr.k = "bin" -> is_stateful_expr(expr.left) \/ is_stateful_expr(expr.right)
      [] expr.k = "if" ->
           \/ is_stateful_expr(expr.condition)
           \/ is_stateful_expr(expr.then_branch)
           \/ is_stateful_expr(expr.else_branch)
      [] expr.k = "struct" ->
           \E i \in 1..Len(expr.exprs) : is_stateful_expr(expr.exprs[i])
      [] expr.k = "field" -> is_stateful_expr(expr.object)
      [] OTHER -> FALSE

(* ----------------------------- evaluator ------------------------------ *)

\* A faulty variant of _apply_binary_op: a multiplication that adds.
_apply_binary_op_times_adds(op, l, r) ==
    IF l.t # "int" \/ r.t # "int" THEN ErrV
    ELSE CASE op = "+" -> IntV(l.v + r.v)
           [] op = "-" -> IntV(l.v - r.v)
           [] op = "*" -> IntV(l.v + r.v)
           [] OTHER -> ErrV

\* n copies of a list, one after the other (none when n <= 0)
RECURSIVE Repeated(_, _)
Repeated(elems, n) == IF n <= 0 THEN <<>> ELSE elems \o Repeated(elems, n - 1)

\* float addition: inf + inf is inf, inf + -inf is nan
FloatAdd(l, r) ==
    IF Denom(l) = 0 /\ Denom(r) = 0
    THEN FloatV(IF Numer(l) = Numer(r) THEN Numer(l) ELSE 0, 0)
    ELSE FloatV(Numer(l) * Denom(r) + Numer(r) * Denom(l), Denom(l) * Denom(r))

\* '/': lambda l, r: l / r if r != 0 else float('inf')
Divide(l, r) ==
    IF NumEq(r, IntV(0)) THEN InfV
    ELSE IF Denom(l) = 0 /\ Denom(r) # 0 THEN FloatV(Numer(l) * Numer(r), 0)
    ELSE FloatV(Numer(l) * Denom(r), Denom(l) * Numer(r))

_apply_binary_op(op, l, r) ==
    IF l.t = "array" /\ r.t = "array" /\ op = "+" THEN ArrayV(l.v \o r.v)
    ELSE IF l.t = "array" /\ r.t = "int" /\ op = "*" THEN ArrayV(Repeated(l.v, r.v))
    ELSE IF l.t = "int" /\ r.t = "array" /\ op = "*" THEN ArrayV(Repeated(r.v, l.v))
    ELSE IF ~IsNumber(l) \/ ~IsNumber(r) THEN ErrV
    ELSE IF op = "/" THEN Divide(l, r)
    ELSE IF l.t = "float" \/ r.t = "float"
    THEN CASE op = "+" -> FloatAdd(l, r)
           [] op = "-" -> FloatAdd(l, FloatV(-Numer(r), Denom(r)))
           [] op = "*" -> FloatV(Numer(l) * Numer(r), Denom(l) * Denom(r))
           [] OTHER -> ErrV
    ELSE CASE op = "+" -> IntV(l.v + r.v)
           [] op = "-" -> IntV(l.v - r.v)
           [] op = "*" -> IntV(l.v * r.v)
           [] OTHER -> ErrV

\* An evaluation yields a value and leaves context['__temporal_state__']
\* behind for the rest of the same evaluation: [v, st], where st maps the
\* stream names that a pre has stored to the stored values.
Evaluated(v, st) == [v |-> v, st |-> st]

RECURSIVE EvaluateIn(_, _, _, _)
RECURSIVE EvalFields(_, _, _, _, _)
RECURSIVE EvalElements(_, _, _, _)

\* ArrayLiteral: the elements, from left to right
EvalElements(engine_nodes, elements, context, st) ==
    IF elements = <<>> THEN Evaluated(ArrayV(<<>>), st)
    ELSE LET x == EvaluateIn(engine_nodes, Head(elements), context, st) IN
         IF IsErr(x.v) THEN x
         ELSE LET rest == EvalElements(engine_nodes, Tail(elements), context, x.st) IN
              IF IsErr(rest.v) THEN rest
              ELSE Evaluated(ArrayV(<<x.v>> \o rest.v.v), rest.st)

EvalFields(engine_nodes, names, exprs, context, st) ==
    IF names = <<>> THEN Evaluated(StructV(<<>>), st)
    ELSE LET x == EvaluateIn(engine_nodes, Head(exprs), context, st) IN
         IF IsErr(x.v) THEN x
         ELSE LET rest == EvalFields(engine_nodes, Tail(names), Tail(exprs), context, x.st) IN
              IF IsErr(rest.v) THEN rest
              ELSE Evaluated(StructV([f \in {Head(names)} \cup DOMAIN rest.v.v |->
                                        IF f \in DOMAIN rest.v.v THEN rest.v.v[f] ELSE x.v]),
                             rest.st)

\* PreOp: the value stored for the stream earlier in this evaluation, or
\* else the initial value; then the stream's current value is stored.
\* (context has no '__current_node__', so no pre is a self-reference here.)
EvaluatePre(engine_nodes, expr, context, st) ==
    LET stream_name == Nm(expr.stream_name)
        prev == IF stream_name \in DOMAIN st THEN Evaluated(st[stream_name], st)
                ELSE EvaluateIn(engine_nodes, expr.initial_value, context, st)
        in_context == IF stream_name \in DOMAIN context THEN context[stream_name] ELSE NoneV
        current_value == IF in_context.t = "none" /\ stream_name \in DOMAIN engine_nodes
                         THEN engine_nodes[stream_name].cached_value
                         ELSE in_context
    IN IF IsErr(prev.v) THEN prev
       ELSE Evaluated(prev.v,
                      [n \in DOMAIN prev.st \cup {stream_name} |->
                          IF n = stream_name THEN current_value ELSE prev.st[n]])

\* The key of the accumulator in the temporal state; it is there when
\* '__fold_initialized__' is.
FoldKey == Nm("__fold_acc__")

\* FoldOp: the first fold of an evaluation stores its initial value and
\* returns it; with an accumulator in the state, the function is applied
\* once to it and to the value of the stream.
EvaluateFold(engine_nodes, expr, context, st) ==
    IF FoldKey \notin DOMAIN st
    THEN LET initial == EvaluateIn(engine_nodes, expr.initial, context, st) IN
         IF IsErr(initial.v) THEN initial
         ELSE Evaluated(initial.v,
                        [n \in DOMAIN initial.st \cup {FoldKey} |->
                            IF n = FoldKey THEN initial.v ELSE initial.st[n]])
    ELSE LET acc == st[FoldKey]
             current_value == EvaluateIn(engine_nodes, expr.stream, context, st)
         IN IF IsErr(current_value.v) THEN current_value
            ELSE LET params == {Nm(expr.parameters[1]), Nm(expr.parameters[2])}
                     lambda_context ==
                         [n \in DOMAIN context \cup params |->
                             IF n = Nm(expr.parameters[2]) THEN current_value.v
                             ELSE IF n = Nm(expr.parameters[1]) THEN acc
                             ELSE context[n]]
                     new_acc == EvaluateIn(engine_nodes, expr.body, lambda_context,
                                           current_value.st)
                 IN IF IsErr(new_acc.v) THEN new_acc
                    ELSE Evaluated(new_acc.v,
                                   [n \in DOMAIN new_acc.st \cup {FoldKey} |->
                                       IF n = FoldKey THEN new_acc.v ELSE new_acc.st[n]])

EvaluateIn(engine_nodes, expr, context, st) ==
    CASE expr.k = "lit" -> Evaluated(IntV(expr.value), st)
      [] expr.k = "flit" -> Evaluated(FloatV(expr.n, expr.d), st)
      [] expr.k = "id" ->
           IF Nm(expr.name) \in DOMAIN context
           THEN Evaluated(context[Nm(expr.name)], st) ELSE Evaluated(ErrV, st)
      [] expr.k = "bin" ->
           LET left == EvaluateIn(engine_nodes, expr.left, context, st) IN
           IF IsErr(left.v) THEN left
           ELSE LET right == EvaluateIn(engine_nodes, expr.right, context, left.st) IN
                IF IsErr(right.v) THEN right
                ELSE Evaluated(_apply_binary_op(expr.operator, left.v, right.v), right.st)
      [] expr.k = "if" ->
           LET condition == EvaluateIn(engine_nodes, expr.condition, context, st) IN
           IF IsErr(condition.v) THEN condition
           ELSE IF Truthy(condition.v)
                THEN EvaluateIn(engine_nodes, expr.then_branch, context, condition.st)
                ELSE EvaluateIn(engine_nodes, expr.else_branch, context, condition.st)
      [] expr.k = "pre" -> EvaluatePre(engine_nodes, expr, context, st)
      [] expr.k = "fold" -> EvaluateFold(engine_nodes, expr, context, st)
      [] expr.k = "array" -> EvalElements(engine_nodes, expr.elements, context, st)
      [] expr.k = "struct" -> EvalFields(engine_nodes, expr.names, expr.exprs, context, st)
      [] expr.k = "field" ->
           LET field_path == _get_field_path(expr) IN
           IF field_path # NoName /\ field_path \in DOMAIN context
           THEN Evaluated(context[field_path], st)
           ELSE LET obj == EvaluateIn(engine_nodes, expr.object, context, st) IN
                IF IsErr(obj.v) THEN obj
                ELSE IF obj.v.t # "struct" THEN Evaluated(ErrV, obj.st)
                ELSE IF expr.field_name \notin DOMAIN obj.v.v THEN Evaluated(ErrV, obj.st)
                ELSE Evaluated(obj.v.v[expr.field_name], obj.st)
      [] OTHER -> Evaluated(ErrV, st)

\* evaluate(expr, context) of the evaluator of an engine with these nodes;
\* the context of a formula holds no '__temporal_state__' at the start.
evaluate(engine_nodes, expr, context) == EvaluateIn(engine_nodes, expr, context, <<>>).v

(* ------------------------ cycle detector ------------------------------ *)

\* A dependency graph is [keys |-> the dict's keys in insertion order,
\*                        deps |-> key -> set of names].
\* The detector's state is (visited, rec_stack); a call returns the cycle
\* (<<>> for None) and the state it leaves behind.
\* A faulty variant of CyclePath: the whole recursion stack, not its suffix.
CyclePathWholeStack(rec_stack, start_node) == rec_stack \o <<start_node>>

\* The path reported on a back-edge to start_node, which is on the stack.
CyclePath(rec_stack, start_node) ==
    LET cycle_start_idx == IndexOf(rec_stack, start_node) IN
    SubSeq(rec_stack, cycle_start_idx, Len(rec_stack)) \o <<start_node>>

RECURSIVE detect_cycle(_, _, _, _, _)
RECURSIVE DetectDeps(_, _, _, _, _)
DetectDeps(deps_graph, ord, deps, visited, rec_stack) ==
    IF deps = <<>>
    THEN [cycle |-> <<>>, visited |-> visited, rec_stack |-> rec_stack]
    ELSE LET r == detect_cycle(deps_graph, ord, Head(deps), visited, rec_stack) IN
         IF r.cycle # <<>> THEN r
         ELSE DetectDeps(deps_graph, ord, Tail(deps), r.visited, r.rec_stack)

detect_cycle(deps_graph, ord, start_node, visited, rec_stack) ==
    IF start_node \in visited
    THEN [cycle |-> <<>>, visited |-> visited, rec_stack |-> rec_stack]
    ELSE IF start_node \in SeqToSet(rec_stack)
    THEN [cycle |-> CyclePath(rec_stack, start_node),
          visited |-> visited, rec_stack |-> rec_stack]
    ELSE LET pushed == Append(rec_stack, start_node)
             r == IF start_node \in DOMAIN deps_graph.deps
                  THEN DetectDeps(deps_graph, ord,
                                  SetIter(deps_graph.deps[start_node], ord),
                                  visited, pushed)
                  ELSE [cycle |-> <<>>, visited |-> visited, rec_stack |-> pushed]
         IN IF r.cycle # <<>> THEN r
            ELSE [cycle |-> <<>>,
                  visited |-> r.visited \cup {start_node},
                  rec_stack |-> SubSeq(r.rec_stack, 1, Len(r.rec_stack) - 1)]

\* One iteration of find_all_cycles' loop, for root `node`.
FindCyclesStep(deps_graph, ord, node, visited, cycles) ==
    LET r == detect_cycle(deps_graph, ord, node, visited, <<>>) IN
    [visited |-> r.visited,
     cycles |-> IF r.cycle # <<>> /\ r.cycle \notin SeqToSet(cycles)
                THEN Append(cycles, r.cycle) ELSE cycles]

RECURSIVE FindCyclesFrom(_, _, _, _, _)
FindCyclesFrom(deps_graph, ord, roots, visited, cycles) ==
    IF roots = <<>> THEN cycles
    ELSE LET st == FindCyclesStep(deps_graph, ord, Head(roots), visited, cycles) IN
         FindCyclesFrom(deps_graph, ord, Tail(roots), st.visited, st.cycles)

find_all_cycles(deps_graph, ord) ==
    FindCyclesFrom(deps_graph, ord, deps_graph.keys, {}, <<>>)

(* --------------------------- declarations ----------------------------- *)

\* A source's type_sig is "none" (no annotation), "int" or "struct" (with
\* the field names in `fields`); its `expression` is the initial value.
SourceDecl(n, ty, fs, init) ==
    [kind |-> "source", name |-> Nm(n), type_sig |-> ty, fields |-> fs,
     expression |-> init, trigger |-> NoName]
StreamDecl(n, e, trig) ==
    [kind |-> "stream", name |-> Nm(n), type_sig |-> "none", fields |-> <<>>,
     expression |-> e, trigger |-> trig]
SinkDecl(n, e) ==
    [kind |-> "sink", name |-> Nm(n), type_sig |-> "none", fields |-> <<>>,
     expression |-> e, trigger |-> NoName]

\* func n(parameters) = body; the parameters stand in `fields`
FuncDecl(n, parameters, body) ==
    [kind |-> "func", name |-> Nm(n), type_sig |-> "none", fields |-> parameters,
     expression |-> body, trigger |-> NoName]
\* type n = { fs }
TypeDecl(n, fs) ==
    [kind |-> "type", name |-> Nm(n), type_sig |-> "struct", fields |-> fs,
     expression |-> Nil, trigger |-> NoName]

\* parse_stream_decl: decl.static_dependencies = extract_dependencies(expression)
static_dependencies(decl) == extract_dependencies(decl.expression)

\* The struct type of a source, as its field names (<<>> if it has none):
\* the annotation, or else the type inferred from a struct-literal initial value.
_get_struct_type(decl) ==
    IF decl.type_sig = "struct" THEN decl.fields
    ELSE IF decl.type_sig = "none" /\ decl.expression.k = "struct"
         THEN decl.expression.names
    ELSE <<>>

Select(stmts, kd) == SelectSeq(stmts, LAMBDA d : d.kind = kd)

(* --------------------------- static checks ---------------------------- *)

DuplicateDefinitionError(n) ==
    [etype |-> "DuplicateDefinition", name |-> n, context |-> NoName, path |-> <<>>]
UndefinedReferenceError(n, ctx) ==
    [etype |-> "UndefinedReference", name |-> n, context |-> ctx, path |-> <<>>]
CircularDependencyError(cycle) ==
    [etype |-> "CircularDependency", name |-> NoName, context |-> NoName, path |-> cycle]
\* CompileError(f"{message}: '{n}'"), raised at once and not collected
CompileError(message, n) ==
    [etype |-> "CompileError", name |-> n, context |-> <<message>>, path |-> <<>>]

\* compile, steps 0a and 0b: _compile_type_decl / _compile_func on each
\* declaration of the kind in turn; the first name met twice raises
\* CompileError (NoName: none does).
RECURSIVE FirstRepeated(_, _)
FirstRepeated(decls, seen_names) ==
    IF decls = <<>> THEN NoName
    ELSE IF Head(decls).name \in seen_names THEN Head(decls).name
    ELSE FirstRepeated(Tail(decls), seen_names \cup {Head(decls).name})

_compile_type_decl(stmts) == FirstRepeated(Select(stmts, "type"), {})
_compile_func(stmts) == FirstRepeated(Select(stmts, "func"), {})

RECURSIVE DuplicateCheckFrom(_, _)
DuplicateCheckFrom(all_decls, seen_names) ==
    IF all_decls = <<>> THEN <<>>
    ELSE LET name == Head(all_decls).name IN
         IF name \in seen_names
         THEN <<DuplicateDefinitionError(name)>> \o DuplicateCheckFrom(Tail(all_decls), seen_names)
         ELSE DuplicateCheckFrom(Tail(all_decls), seen_names \cup {name})

DuplicateDefinitionChecker(all_decls) == DuplicateCheckFrom(all_decls, {})

\* compile, step 2: the source names, with the field paths of struct sources
CollectSourceNames(stmts) ==
    UNION {{stmts[i].name} \cup
           {Dotted(stmts[i].name, _get_struct_type(stmts[i])[j]) :
                j \in 1..Len(_get_struct_type(stmts[i]))} :
           i \in {i \in 1..Len(stmts) : stmts[i].kind = "source"}}

\* A faulty variant of _is_defined: exact matches only.
_is_defined_exact(dep, defined_names) == dep \in defined_names

_is_defined(dep, defined_names) ==
    \/ dep \in defined_names
    \/ HasDot(dep) /\ BaseName(dep) \in defined_names

RECURSIVE UndefinedDeps(_, _, _)
UndefinedDeps(deps, ctx, defined_names) ==
    IF deps = <<>> THEN <<>>
    ELSE (IF ~_is_defined(Head(deps), defined_names)
          THEN <<UndefinedReferenceError(Head(deps), ctx)>> ELSE <<>>)
         \o UndefinedDeps(Tail(deps), ctx, defined_names)

RECURSIVE UndefinedCheckFrom(_, _, _)
UndefinedCheckFrom(decls, defined_names, ord) ==
    IF decls = <<>> THEN <<>>
    ELSE UndefinedDeps(SetIter(static_dependencies(Head(decls)), ord),
                       Head(decls).name, defined_names)
         \o UndefinedCheckFrom(Tail(decls), defined_names, ord)

UndefinedReferenceChecker(stream_decls, source_names, ord) ==
    UndefinedCheckFrom(stream_decls,
                       source_names \cup {stream_decls[i].name : i \in 1..Len(stream_decls)},
                       ord)

\* A faulty variant of filtered_deps: the stream's own name is kept.
filtered_deps_keeps_self(decl) ==
    static_dependencies(decl)
      \cup (IF decl.trigger # NoName THEN {decl.trigger} ELSE {})

\* The graph both the cycle check and the rank assignment build: the raw
\* dependency symbols without the stream's own name, plus the trigger.
filtered_deps(decl) ==
    (static_dependencies(decl) \ {decl.name})
      \cup (IF decl.trigger # NoName THEN {decl.trigger} ELSE {})

RECURSIVE DistinctNames(_)
DistinctNames(s) ==
    IF s = <<>> THEN <<>>
    ELSE LET rest == DistinctNames(SubSeq(s, 1, Len(s) - 1)) IN
         IF s[Len(s)] \in SeqToSet(rest) THEN rest ELSE Append(rest, s[Len(s)])

BuildDepsGraph(stream_decls) ==
    LET names == [i \in 1..Len(stream_decls) |-> stream_decls[i].name] IN
    [keys |-> DistinctNames(names),
     deps |-> [n \in SeqToSet(names) |->
                filtered_deps(stream_decls[
                    CHOOSE i \in 1..Len(stream_decls) :
                        /\ stream_decls[i].name = n
                        /\ \A j \in (i+1)..Len(stream_decls) : stream_decls[j].name # n])]]

_detect_circular_dependencies(stream_decls, ord) ==
    LET cycles == find_all_cycles(BuildDepsGraph(stream_decls), ord) IN
    [i \in 1..Len(cycles) |-> CircularDependencyError(cycles[i])]

(* -------------------------- rank assignment --------------------------- *)

\* compute_rank: memoised DFS; the memo does not change the result.
RECURSIVE compute_rank(_, _)
compute_rank(deps_graph, name) ==
    IF name \notin DOMAIN deps_graph.deps \/ deps_graph.deps[name] = {}
    THEN 0
    ELSE LET known == {d \in deps_graph.deps[name] : d \in DOMAIN deps_graph.deps}
             dep_rank == [d \in known |-> compute_rank(deps_graph, d)]
         IN (IF known = {} THEN 0
             ELSE LET m == CHOOSE d \in known : \A e \in known : dep_rank[e] <= dep_rank[d]
                  IN dep_rank[m]) + 1

_compute_ranks(stream_decls) ==
    LET deps_graph == BuildDepsGraph(stream_decls) IN
    [i \in 1..Len(stream_decls) |-> compute_rank(deps_graph, stream_decls[i].name)]

\* sorted(..., key=rank): stable
RECURSIVE SortedFrom(_, _, _, _)
SortedFrom(items, key, r, top) ==
    IF r > top THEN <<>>
    ELSE SelectSeq(items, LAMBDA i : key[i] = r) \o SortedFrom(items, key, r + 1, top)

SortedByRank(items, key) ==
    SortedFrom(items, key, 0, SeqMax([j \in 1..Len(items) |-> key[items[j]]]))

(* ------------------------------ engine -------------------------------- *)

\* A formula is a closure over its declaration: the expression of a
\* stream or sink, the field list of a synthetic struct stream, or None.
NoFormula ==
    [fk |-> "none", expr |-> Nil, stateful |-> FALSE, base |-> NoName, field_names |-> <<>>]
ExprFormula(e) ==
    [fk |-> "expr", expr |-> e, stateful |-> FALSE, base |-> NoName, field_names |-> <<>>]
StatefulFormula(e) ==
    [fk |-> "expr", expr |-> e, stateful |-> TRUE, base |-> NoName, field_names |-> <<>>]
StructFormula(name, fs) ==
    [fk |-> "struct", expr |-> Nil, stateful |-> FALSE, base |-> name, field_names |-> fs]

GraphNode(name, formula, cached_value, rank, is_stateful, dependencies, is_source, has_trigger, initial_value) ==
    [name |-> name, formula |-> formula, cached_value |-> cached_value,
     rank |-> rank, is_stateful |-> is_stateful, state |-> NoneV,
     dependencies |-> dependencies, subscribers |-> {}, is_dirty |-> FALSE,
     is_source |-> is_source, has_trigger |-> has_trigger,
     initial_value |-> initial_value]

\* RippleEngine(): the part of the engine that registration fills
EmptyGraph == [nodes |-> <<>>, node_order |-> <<>>, sinks |-> <<>>]

\* self.nodes[name] = node
PutNode(G, node) ==
    [G EXCEPT !.nodes = [n \in DOMAIN G.nodes \cup {node.name} |->
                            IF n = node.name THEN node ELSE G.nodes[n]],
              !.node_order = IF node.name \in DOMAIN G.nodes THEN G.node_order
                             ELSE Append(G.node_order, node.name)]

add_source(G, name, initial_value) ==
    PutNode(G, GraphNode(name, NoFormula, initial_value, 0, FALSE, {}, TRUE, FALSE, NoneV))

\* The rank add_stream gives a node: one more than the highest rank among
\* the dependencies registered so far.
StreamRank(G, dependencies) ==
    LET known == {d \in dependencies : d \in DOMAIN G.nodes} IN
    (IF known = {} THEN 0
     ELSE LET m == CHOOSE d \in known : \A e \in known : G.nodes[e].rank <= G.nodes[d].rank
          IN G.nodes[m].rank) + 1

\* A faulty variant of SubscribeDeps: a trigger adds to the subscriptions.
SubscribeDeps_all(dependencies, has_trigger, trigger_deps) ==
    dependencies \cup trigger_deps

\* The dependencies add_stream subscribes the node to.
SubscribeDeps(dependencies, has_trigger, trigger_deps) ==
    IF has_trigger THEN trigger_deps ELSE dependencies

add_stream(G, name, formula, dependencies, is_stateful, has_trigger, trigger_deps) ==
    LET rank == StreamRank(G, dependencies)
        G1 == PutNode(G, GraphNode(name, formula, NoneV, rank, is_stateful,
                                   dependencies, FALSE, has_trigger, IntV(0)))
        subscribe_deps == SubscribeDeps(dependencies, has_trigger, trigger_deps)
    IN [G1 EXCEPT !.nodes = [n \in DOMAIN G1.nodes |->
                                IF n \in subscribe_deps
                                THEN [G1.nodes[n] EXCEPT !.subscribers = @ \cup {name}]
                                ELSE G1.nodes[n]]]

add_sink(G, name, formula, dependencies) ==
    LET G1 == add_stream(G, name, formula, dependencies, FALSE, FALSE, {}) IN
    [G1 EXCEPT !.sinks = Append(@, name)]

\* The dict of arguments _recompute hands to the formula.
RecomputeArgs(nodes, node) ==
    [d \in {d \in node.dependencies : d \in DOMAIN nodes} |-> nodes[d].cached_value]

\* struct_formula of _compile_struct_source: args.get(f"{name}.{field}")
struct_formula(base, field_names, args) ==
    StructV([f \in SeqToSet(field_names) |->
                IF Dotted(base, f) \in DOMAIN args THEN args[Dotted(base, f)] ELSE NoneV])

\* formula(args) of _compile_stream for a stateful declaration: the
\* previous state, unless it is None, stands for the stream's own name.
StatefulContext(node, args) ==
    IF node.state.t = "none" THEN args
    ELSE [n \in DOMAIN args \cup {node.name} |->
            IF n = node.name THEN node.state ELSE args[n]]

ApplyFormula(nodes, node, args) ==
    IF node.formula.fk = "struct"
    THEN struct_formula(node.formula.base, node.formula.field_names, args)
    ELSE IF node.formula.stateful
    THEN evaluate(nodes, node.formula.expr, StatefulContext(node, args))
    ELSE evaluate(nodes, node.formula.expr, args)

_recompute(nodes, node) ==
    IF node.is_source THEN node.cached_value
    ELSE IF node.formula.fk = "none" THEN NoneV
    ELSE LET result == ApplyFormula(nodes, node, RecomputeArgs(nodes, node)) IN
         IF IsErr(result) THEN NoneV ELSE result

\* node.state after _recompute(node): a formula that returned
\* (value, new_state) without raising leaves new_state.
RecomputedState(nodes, node) ==
    IF node.is_source \/ node.formula.fk # "expr" \/ ~node.formula.stateful THEN node.state
    ELSE LET result == ApplyFormula(nodes, node, RecomputeArgs(nodes, node)) IN
         IF IsErr(result) THEN node.state ELSE result

(* The scheduler heap: heapq on a list of PriorityQueueItem, ordered by    *)
(* rank alone (PriorityQueueItem.__lt__).                                  *)
PriorityQueueItem(rank, name) == [rank |-> rank, name |-> name]
ItemLt(a, b) == a.rank < b.rank

RECURSIVE _siftdown(_, _, _, _)
_siftdown(heap, startpos, pos, newitem) ==
    IF pos > startpos
    THEN LET parentpos == (pos - 1) \div 2 IN
         IF ItemLt(newitem, heap[parentpos + 1])
         THEN _siftdown([heap EXCEPT ![pos + 1] = heap[parentpos + 1]],
                        startpos, parentpos, newitem)
         ELSE [heap EXCEPT ![pos + 1] = newitem]
    ELSE [heap EXCEPT ![pos + 1] = newitem]

heappush(heap, item) ==
    _siftdown(Append(heap, item), 0, Len(heap), item)

RECURSIVE SiftUpLoop(_, _, _)
SiftUpLoop(heap, pos, newitem) ==
    LET endpos == Len(heap)
        childpos == 2 * pos + 1
    IN IF childpos < endpos
       THEN LET rightpos == childpos + 1
                c == IF rightpos < endpos /\ ~ItemLt(heap[childpos + 1], heap[rightpos + 1])
                     THEN rightpos ELSE childpos
            IN SiftUpLoop([heap EXCEPT ![pos + 1] = heap[c + 1]], c, newitem)
       ELSE [heap |-> heap, pos |-> pos]

_siftup(heap, pos) ==
    LET newitem == heap[pos + 1]
        r == SiftUpLoop(heap, pos, newitem)
    IN _siftdown(r.heap, pos, r.pos, newitem)

\* heappop: [item, heap]
heappop(heap) ==
    LET lastelt == heap[Len(heap)]
        rest == SubSeq(heap, 1, Len(heap) - 1)
    IN IF rest # <<>>
       THEN [item |-> rest[1], heap |-> _siftup([rest EXCEPT ![1] = lastelt], 0)]
       ELSE [item |-> lastelt, heap |-> rest]

\* A faulty variant of _enqueue: the in-heap set is not asked.
_enqueue_again(nodes, Q, name) ==
    [priority_queue |-> heappush(Q.priority_queue,
                                 PriorityQueueItem(nodes[name].rank, name)),
     in_queue |-> Q.in_queue \cup {name}]

\* Q is [priority_queue, in_queue]
_enqueue(nodes, Q, name) ==
    IF name \notin Q.in_queue
    THEN [priority_queue |-> heappush(Q.priority_queue,
                                      PriorityQueueItem(nodes[name].rank, name)),
          in_queue |-> Q.in_queue \cup {name}]
    ELSE Q

RECURSIVE EnqueueAll(_, _, _)
EnqueueAll(nodes, Q, names) ==
    IF names = <<>> THEN Q
    ELSE EnqueueAll(nodes, _enqueue(nodes, Q, Head(names)), Tail(names))

(* ----------------------------- compiler ------------------------------- *)

_normalize_dependency(G, dep) ==
    IF ~HasDot(dep) THEN dep
    ELSE IF dep \in DOMAIN G.nodes /\ G.nodes[dep].is_source THEN dep
    ELSE BaseName(dep)

_normalize_dependencies(G, deps) == {_normalize_dependency(G, d) : d \in deps}

RECURSIVE AddFieldSources(_, _, _, _)
AddFieldSources(G, name, field_names, initial_value) ==
    IF field_names = <<>> THEN G
    ELSE LET f == Head(field_names)
             field_initial ==
                 IF Truthy(initial_value) /\ initial_value.t = "struct"
                    /\ f \in DOMAIN initial_value.v
                 THEN initial_value.v[f] ELSE NoneV
         IN AddFieldSources(add_source(G, Dotted(name, f), field_initial),
                            name, Tail(field_names), initial_value)

_compile_struct_source(G, name, field_names, initial_value) ==
    LET G1 == AddFieldSources(G, name, field_names, initial_value)
        field_deps == {Dotted(name, f) : f \in SeqToSet(field_names)}
    IN add_stream(G1, name, StructFormula(name, field_names), field_deps,
                  FALSE, FALSE, {})

\* [ok, G]: ok is FALSE when the initial value cannot be evaluated
_compile_source(G, decl) ==
    LET initial_value == IF decl.expression.k = "nil" THEN NoneV
                         ELSE evaluate(G.nodes, decl.expression, <<>>)
        struct_type == _get_struct_type(decl)
    IN IF IsErr(initial_value) THEN [ok |-> FALSE, G |-> G]
       ELSE IF struct_type # <<>>
       THEN [ok |-> TRUE, G |-> _compile_struct_source(G, decl.name, struct_type, initial_value)]
       ELSE [ok |-> TRUE, G |-> add_source(G, decl.name, initial_value)]

\* compile, step 5: [failed (the source whose initial value raised, or NoName), G]
RECURSIVE CompileSourcesFrom(_, _)
CompileSourcesFrom(G, decls) ==
    IF decls = <<>> THEN [failed |-> NoName, G |-> G]
    ELSE LET r == _compile_source(G, Head(decls)) IN
         IF ~r.ok THEN [failed |-> Head(decls).name, G |-> r.G]
         ELSE CompileSourcesFrom(r.G, Tail(decls))

\* The dependency set _compile_stream registers.
StreamDependencies(G, decl) ==
    (_normalize_dependencies(G, static_dependencies(decl))
       \cup (IF decl.trigger # NoName THEN {_normalize_dependency(G, decl.trigger)} ELSE {}))
      \ {decl.name}

_compile_stream(G, decl) ==
    add_stream(G, decl.name,
               IF is_stateful_expr(decl.expression) THEN StatefulFormula(decl.expression)
               ELSE ExprFormula(decl.expression),
               StreamDependencies(G, decl),
               is_stateful_expr(decl.expression),
               decl.trigger # NoName,
               IF decl.trigger # NoName THEN {_normalize_dependency(G, decl.trigger)} ELSE {})

\* The order in which compile registers the streams (indices into stream_decls).
StreamCompileOrder(stream_decls, ranks) ==
    SortedByRank([i \in 1..Len(stream_decls) |-> i], ranks)

RECURSIVE CompileStreamsFrom(_, _, _)
CompileStreamsFrom(G, stream_decls, order) ==
    IF order = <<>> THEN G
    ELSE CompileStreamsFrom(_compile_stream(G, stream_decls[Head(order)]),
                            stream_decls, Tail(order))

_compile_sink(G, decl) ==
    add_sink(G, decl.name, ExprFormula(decl.expression),
             _normalize_dependencies(G, extract_dependencies(decl.expression)))

RECURSIVE CompileSinksFrom(_, _)
CompileSinksFrom(G, decls) ==
    IF decls = <<>> THEN G
    ELSE CompileSinksFrom(_compile_sink(G, Head(decls)), Tail(decls))

\* A faulty variant of InitOrder: the list of the nodes is gone through twice.
InitOrder_twice(G) ==
    LET stream_nodes == SelectSeq(G.node_order, LAMBDA n : ~G.nodes[n].is_source)
        rank_of == [n \in DOMAIN G.nodes |-> G.nodes[n].rank]
    IN SortedByRank(stream_nodes, rank_of) \o SortedByRank(stream_nodes, rank_of)

\* _initialize_values: the non-source nodes, by rank (stable over the
\* registration order), each recomputed once on the values set so far.
InitOrder(G) ==
    LET stream_nodes == SelectSeq(G.node_order, LAMBDA n : ~G.nodes[n].is_source)
        rank_of == [n \in DOMAIN G.nodes |-> G.nodes[n].rank]
    IN SortedByRank(stream_nodes, rank_of)

\* A faulty variant of InitializeFrom: a stream with a trigger is given its
\* initial_value, and its formula is left alone.
RECURSIVE InitializeFrom_untriggered(_, _)
InitializeFrom_untriggered(nodes, order) ==
    IF order = <<>> THEN nodes
    ELSE LET n == Head(order) IN
         InitializeFrom_untriggered(
             IF nodes[n].has_trigger
             THEN [nodes EXCEPT ![n].cached_value = nodes[n].initial_value]
             ELSE IF nodes[n].formula.fk # "none"
             THEN [nodes EXCEPT ![n].cached_value = _recompute(nodes, nodes[n]),
                                ![n].state = RecomputedState(nodes, nodes[n])]
             ELSE nodes,
             Tail(order))

RECURSIVE InitializeFrom(_, _)
InitializeFrom(nodes, order) ==
    IF order = <<>> THEN nodes
    ELSE LET n == Head(order) IN
         InitializeFrom(
             IF nodes[n].formula.fk # "none"
             THEN [nodes EXCEPT ![n].cached_value = _recompute(nodes, nodes[n]),
                                ![n].state = RecomputedState(nodes, nodes[n])]
             ELSE nodes,
             Tail(order))

_initialize_values(G) == InitializeFrom(G.nodes, InitOrder(G))

(* ------------------------------ inputs -------------------------------- *)

Plus(a, b) == Bin("+", a, b)
Times(a, b) == Bin("*", a, b)
IntSource(n, v) == SourceDecl(n, "int", <<>>, Lit(v))

\* source A := 1; stream B <- A*2; stream C <- A+1; stream D <- B+C; sink out <- D
Diamond ==
    << IntSource("A", 1),
       StreamDecl("B", Times(Id("A"), Lit(2)), NoName),
       StreamDecl("C", Plus(Id("A"), Lit(1)), NoName),
       StreamDecl("D", Plus(Id("B"), Id("C")), NoName),
       SinkDecl("out", Id("D")) >>

\* a stream reading a field of a struct-valued stream
FieldOfStream ==
    << IntSource("a", 1),
       StreamDecl("b", Plus(Id("a"), Lit(1)), NoName),
       StreamDecl("stats", StructLit(<<"count">>, <<Id("b")>>), NoName),
       StreamDecl("c", Plus(Field(Id("stats"), "count"), Id("a")), NoName) >>

\* a stream reading a field of a struct-valued stream declared after it;
\* both read the source
FieldTie ==
    << IntSource("a", 1),
       StreamDecl("c", Plus(Field(Id("stats"), "count"), Id("a")), NoName),
       StreamDecl("stats", StructLit(<<"count">>, <<Id("a")>>), NoName) >>

FieldOfStreamShort ==
    << IntSource("a", 1),
       StreamDecl("stats", StructLit(<<"count">>, <<Id("a")>>), NoName),
       StreamDecl("c", Plus(Field(Id("stats"), "count"), Lit(1)), NoName),
       SinkDecl("o", Id("c")) >>

SinkUndefined ==
    << IntSource("a", 1), SinkDecl("o", Plus(Id("zz"), Lit(1))) >>

SinkSelf ==
    << IntSource("a", 1), SinkDecl("o", IfE(Id("a"), Id("a"), Id("o"))) >>

\* A sink that reads itself: 0 when it holds a value, the source when not.
SinkToggle ==
    << IntSource("a", 1), SinkDecl("o", IfE(Id("o"), Lit(0), Id("a"))) >>

SinkCycle ==
    << IntSource("a", 1),
       SinkDecl("s1", Plus(Id("s2"), Id("a"))),
       SinkDecl("s2", Plus(Id("s1"), Id("a"))) >>

SinkChain ==
    << IntSource("a", 1),
       SinkDecl("s1", Plus(Id("a"), Lit(1))),
       SinkDecl("s2", Plus(Id("s1"), Lit(1))) >>

FieldCycle ==
    << IntSource("s", 1),
       StreamDecl("a", Plus(Field(Id("b"), "x"), Id("s")), NoName),
       StreamDecl("b", StructLit(<<"x">>, <<Id("a")>>), NoName) >>

\* type P = {x:int, y:int}; source p : P := {x:3, y:4}
StructSource ==
    << SourceDecl("p", "struct", <<"x", "y">>, StructLit(<<"x", "y">>, <<Lit(3), Lit(4)>>)),
       StreamDecl("d", Plus(Times(Field(Id("p"), "x"), Field(Id("p"), "x")),
                            Times(Field(Id("p"), "y"), Field(Id("p"), "y"))), NoName),
       StreamDecl("w", Id("p"), NoName),
       SinkDecl("out", Id("d")) >>

InferredStructSource ==
    << SourceDecl("p", "none", <<>>, StructLit(<<"x">>, <<Lit(3)>>)),
       StreamDecl("w", Id("p"), NoName) >>

Triggered ==
    << IntSource("tick", 0), IntSource("step", 1),
       StreamDecl("n", Plus(Id("step"), Lit(1)), Nm("tick")),
       StreamDecl("m", Plus(Id("n"), Id("step")), NoName) >>

TriggerUndefined ==
    << IntSource("a", 1), StreamDecl("n", Plus(Id("a"), Lit(1)), Nm("zz")) >>

Pruned ==
    << IntSource("A", 1),
       StreamDecl("B", Times(Id("A"), Lit(0)), NoName),
       StreamDecl("C", Plus(Id("B"), Id("A")), NoName),
       StreamDecl("E", Plus(Id("B"), Lit(1)), NoName) >>

Layers ==
    << IntSource("A", 1), SourceDecl("X", "none", <<>>, Nil),
       StreamDecl("B", Plus(Id("A"), Lit(1)), NoName),
       StreamDecl("C", Plus(Id("B"), Id("A")), NoName),
       StreamDecl("D", Plus(Id("C"), Id("B")), NoName) >>

Cycle3 ==
    << StreamDecl("A", Plus(Id("B"), Lit(1)), NoName),
       StreamDecl("B", Plus(Id("C"), Lit(1)), NoName),
       StreamDecl("C", Plus(Id("A"), Lit(1)), NoName) >>

CycleShared ==
    << StreamDecl("A", Plus(Id("B"), Id("C")), NoName),
       StreamDecl("B", Id("A"), NoName),
       StreamDecl("C", Id("A"), NoName) >>

TriggerCycle ==
    << IntSource("a", 1),
       StreamDecl("m", Plus(Id("a"), Lit(1)), Nm("n")),
       StreamDecl("n", Plus(Id("a"), Lit(1)), Nm("m")) >>

SelfPlain ==
    << IntSource("a", 1), StreamDecl("m", Plus(Id("m"), Id("a")), NoName) >>

Undefined ==
    << IntSource("A", 1), StreamDecl("B", Plus(Id("A"), Id("Z")), NoName) >>

Duplicate ==
    << IntSource("A", 1),
       StreamDecl("B", Times(Id("A"), Lit(2)), NoName),
       StreamDecl("B", Plus(Id("A"), Lit(1)), NoName) >>

BadInitial ==
    << SourceDecl("A", "int", <<>>, Plus(Id("Z"), Lit(1))),
       StreamDecl("B", Id("A"), NoName) >>

\* source A := 1; stream B <- A + X; stream C <- B + Y; stream D <- C + q.x
UndefinedMany ==
    << IntSource("A", 1),
       StreamDecl("B", Plus(Id("A"), Id("X")), NoName),
       StreamDecl("C", Plus(Id("B"), Id("Y")), NoName),
       StreamDecl("D", Plus(Id("C"), Field(Id("q"), "x")), NoName) >>

\* source A := 1; stream B <- A*2; stream C <- A+1; stream B <- A*3;
\* stream C <- A+2; stream B <- A
DuplicateMany ==
    << IntSource("A", 1),
       StreamDecl("B", Times(Id("A"), Lit(2)), NoName),
       StreamDecl("C", Plus(Id("A"), Lit(1)), NoName),
       StreamDecl("B", Times(Id("A"), Lit(3)), NoName),
       StreamDecl("C", Plus(Id("A"), Lit(2)), NoName),
       StreamDecl("B", Id("A"), NoName) >>

\* source A := 1; stream A <- A*2; sink out <- A; sink out <- A+1
SourceAndStream ==
    << IntSource("A", 1),
       StreamDecl("A", Times(Id("A"), Lit(2)), NoName),
       SinkDecl("out", Id("A")),
       SinkDecl("out", Plus(Id("A"), Lit(1))) >>

\* type T = {x}; func f(x) = x+1; source A := 1; stream T <- A+1; stream f <- A
TypeAndStream ==
    << TypeDecl("T", <<"x">>),
       FuncDecl("f", <<"x">>, Plus(Id("x"), Lit(1))),
       IntSource("A", 1),
       StreamDecl("T", Plus(Id("A"), Lit(1)), NoName),
       StreamDecl("f", Id("A"), NoName) >>

\* func f(x) = x+1; func f(x) = x*2; func g(x) = x; func g(x) = x+1; source A := 1
FuncTwice ==
    << FuncDecl("f", <<"x">>, Plus(Id("x"), Lit(1))),
       FuncDecl("f", <<"x">>, Times(Id("x"), Lit(2))),
       FuncDecl("g", <<"x">>, Id("x")),
       FuncDecl("g", <<"x">>, Plus(Id("x"), Lit(1))),
       IntSource("A", 1) >>

\* type T = {x}; type T = {y}; source A := 1; stream B <- A; stream B <- A+1
TypeTwice ==
    << TypeDecl("T", <<"x">>),
       TypeDecl("T", <<"y">>),
       IntSource("A", 1),
       StreamDecl("B", Id("A"), NoName),
       StreamDecl("B", Plus(Id("A"), Lit(1)), NoName) >>

\* type T = {x}; func f(x) = x+1; source A := 1; stream B <- A+1
Declared ==
    << TypeDecl("T", <<"x">>),
       FuncDecl("f", <<"x">>, Plus(Id("x"), Lit(1))),
       IntSource("A", 1),
       StreamDecl("B", Plus(Id("A"), Lit(1)), NoName) >>

\* source A := 1; stream B <- A + Z; sink o <- B + Y
UndefinedStreamAndSink ==
    << IntSource("A", 1),
       StreamDecl("B", Plus(Id("A"), Id("Z")), NoName),
       SinkDecl("o", Plus(Id("B"), Id("Y"))) >>

\* source A := 1; stream B <- C + Z; stream C <- B; stream C <- A
AllThree ==
    << IntSource("A", 1),
       StreamDecl("B", Plus(Id("C"), Id("Z")), NoName),
       StreamDecl("C", Id("B"), NoName),
       StreamDecl("C", Id("A"), NoName) >>

\* source A := 1; stream B <- C + Z; stream C <- B
UndefinedAndCycle ==
    << IntSource("A", 1),
       StreamDecl("B", Plus(Id("C"), Id("Z")), NoName),
       StreamDecl("C", Id("B"), NoName) >>

\* source tick := 1; stream count <- pre(count, 0) + tick
Counter ==
    << IntSource("tick", 1),
       StreamDecl("count", Plus(Pre("count", Lit(0)), Id("tick")), NoName) >>

\* source a := 1; stream d <- pre(a, 0) + pre(a, 0)
PrePair ==
    << IntSource("a", 1),
       StreamDecl("d", Plus(Pre("a", Lit(0)), Pre("a", Lit(0))), NoName) >>

\* the diamond with a stream on its own previous value:
\* source A := 1; stream B <- A*2; stream C <- A+1; stream D <- pre(D, 0) + (B + C)
PreDiamond ==
    << IntSource("A", 1),
       StreamDecl("B", Times(Id("A"), Lit(2)), NoName),
       StreamDecl("C", Plus(Id("A"), Lit(1)), NoName),
       StreamDecl("D", Plus(Pre("D", Lit(0)), Plus(Id("B"), Id("C"))), NoName) >>

\* source tick := 0; source step := 1; stream n <- pre(n, 0) + step on tick
TriggeredCounter ==
    << IntSource("tick", 0), IntSource("step", 1),
       StreamDecl("n", Plus(Pre("n", Lit(0)), Id("step")), Nm("tick")) >>

\* source counter : {value, step} := {value: 0, step: 1};
\* stream total <- pre(total, 0) + counter.step on counter.value
StructCounter ==
    << SourceDecl("counter", "struct", <<"value", "step">>,
                  StructLit(<<"value", "step">>, <<Lit(0), Lit(1)>>)),
       StreamDecl("total", Plus(Pre("total", Lit(0)), Field(Id("counter"), "step")),
                  Dotted(Nm("counter"), "value")) >>

\* source tick := 0; stream s <- pre(s, 10) + 2 on tick
TickCounter ==
    << IntSource("tick", 0),
       StreamDecl("s", Plus(Pre("s", Lit(10)), Lit(2)), Nm("tick")) >>

\* source v := 0; stream sum <- fold(v, 0, (a, x) => a + x);
\* stream cnt <- fold(v, 0, (a, x) => a + 1); stream f <- fold(v, 7, (a, x) => a + x)
FoldSum ==
    << IntSource("v", 0),
       StreamDecl("sum", Fold(Id("v"), Lit(0), <<"a", "x">>, Plus(Id("a"), Id("x"))), NoName),
       StreamDecl("cnt", Fold(Id("v"), Lit(0), <<"a", "x">>, Plus(Id("a"), Lit(1))), NoName),
       StreamDecl("f", Fold(Id("v"), Lit(7), <<"a", "x">>, Plus(Id("a"), Id("x"))), NoName) >>

\* two folds in one expression:
\* source v := 3; stream g <- fold(v, 1, (a, x) => a + x) + fold(v, 0, (a, x) => a + x)
FoldTwice ==
    << IntSource("v", 3),
       StreamDecl("g", Plus(Fold(Id("v"), Lit(1), <<"a", "x">>, Plus(Id("a"), Id("x"))),
                            Fold(Id("v"), Lit(0), <<"a", "x">>, Plus(Id("a"), Id("x")))),
                  NoName) >>

\* source data := [1, 2, 3, 4, 5];
\* stream stats <- fold(data, {count: 0, sum: 0},
\*                      (acc, x) => {count: acc.count + 1, sum: acc.sum + x})
FoldArray ==
    << SourceDecl("data", "none", <<>>, ArrayLit(<<Lit(1), Lit(2), Lit(3), Lit(4), Lit(5)>>)),
       StreamDecl("stats",
                  Fold(Id("data"), StructLit(<<"count", "sum">>, <<Lit(0), Lit(0)>>),
                       <<"acc", "x">>,
                       StructLit(<<"count", "sum">>,
                                 <<Plus(Field(Id("acc"), "count"), Lit(1)),
                                   Plus(Field(Id("acc"), "sum"), Id("x"))>>)),
                  NoName) >>

\* source a := 2; stream q <- 10 / a; stream h <- 2.5 / a
Division ==
    << IntSource("a", 2),
       StreamDecl("q", Bin("/", Lit(10), Id("a")), NoName),
       StreamDecl("h", Bin("/", FloatLit(5, 2), Id("a")), NoName) >>

\* a stream as the trigger:
\* source a := 1; source b := 1; stream x <- a * 2; stream t <- b + x on x
TriggeredByStream ==
    << IntSource("a", 1), IntSource("b", 1),
       StreamDecl("x", Times(Id("a"), Lit(2)), NoName),
       StreamDecl("t", Plus(Id("b"), Id("x")), Nm("x")) >>

BasePrograms ==
    { Diamond, FieldOfStream, FieldOfStreamShort, SinkUndefined, SinkSelf,
      SinkCycle, SinkChain, FieldCycle, StructSource, InferredStructSource,
      Triggered, TriggerUndefined, Pruned, Layers, Cycle3, CycleShared,
      TriggerCycle, SelfPlain, Undefined, Duplicate, BadInitial, Counter, PrePair,
      PreDiamond, UndefinedMany,
      DuplicateMany, SourceAndStream, TypeAndStream, FuncTwice, TypeTwice, Declared,
      UndefinedStreamAndSink, AllThree, UndefinedAndCycle, SinkToggle,
      TriggeredCounter, TriggeredByStream, StructCounter,
      TickCounter, FoldSum, FoldTwice, FoldArray, Division, FieldTie }

\* The textual orders of a program: the declarations as written and reversed.
TextualOrders(prog) == {prog, Reverse(prog)}

Programs == UNION {TextualOrders(b) : b \in BasePrograms}

\* Every name a program mentions.
Universe(prog) ==
    UNION {{prog[i].name}
           \cup {Dotted(prog[i].name, _get_struct_type(prog[i])[j]) :
                    j \in 1..Len(_get_struct_type(prog[i]))}
           \cup extract_dependencies(prog[i].expression)
           \cup {BaseName(d) : d \in extract_dependencies(prog[i].expression)}
           \cup (IF prog[i].trigger # NoName THEN {prog[i].trigger} ELSE {}) :
           i \in 1..Len(prog)}

RECURSIVE SetToSeq(_)
SetToSeq(S) ==
    IF S = {} THEN <<>>
    ELSE LET x == CHOOSE x \in S : TRUE IN <<x>> \o SetToSeq(S \ {x})

\* The set-iteration orders considered: for every two names, one order
\* that puts either first.
SetOrders(S) == {SetToSeq(S), Reverse(SetToSeq(S))}

PushInts == {0, 2, 5, 10}
\* dict values handed to push_event, as their items in order
PushDicts ==
    { << <<"x", IntV(0)>>, <<"y", IntV(0)>> >>,
      << <<"y", IntV(7)>>, <<"z", IntV(1)>> >>,
      << <<"z", IntV(1)>> >> }
DictV(items) ==
    StructV([f \in {items[i][1] : i \in 1..Len(items)} |->
                (items[CHOOSE i \in 1..Len(items) : items[i][1] = f])[2]])
\* list values handed to push_event, to the sources that hold a list
PushArrays == { <<IntV(10), IntV(20), IntV(30)>> }
Unregistered == Nm("nosuch")

(* ------------------------------- state -------------------------------- *)

VARIABLES
    program,        \* the declarations handed to compile, in textual order
    iterOrder,      \* the order in which this process iterates sets of names
    pc,             \* where compile / push_event stands
    errors,         \* ErrorReporter.errors
    decl_rank,      \* StreamDecl.rank of each stream declaration
    nodes,          \* RippleEngine.nodes
    node_order,     \* insertion order of RippleEngine.nodes
    sinks,          \* RippleEngine.sinks
    priority_queue, \* RippleEngine.priority_queue
    in_queue,       \* RippleEngine.in_queue
    time_step,      \* RippleEngine.time_step
    last_push,      \* the last push_event call and how it ended
    pass_evals,     \* the recomputations of the current pass: node, values read
    detector,       \* a CircularDependencyDetector run on a graph of its own
    threads,        \* where each thread that calls push_event stands
    typer           \* a TypeChecker call on two types: arguments and result

vars == <<program, iterOrder, pc, errors, decl_rank, nodes, node_order, sinks,
          priority_queue, in_queue, time_step, last_push, pass_evals, detector,
          threads, typer>>

engineVars == <<nodes, node_order, sinks, priority_queue, in_queue, time_step>>

stream_decls == Select(program, "stream")
Graph == [nodes |-> nodes, node_order |-> node_order, sinks |-> sinks]

NoPush == [name |-> NoName, is_record |-> FALSE, status |-> "none"]
\* The threads of ripple_runner: the interactive loop, and the thread on
\* which CSVWatcher calls its callbacks (its poll thread or the observer).
Threads == {"runner", "watcher"}
IdleThread == [at |-> "idle", node_name |-> NoName, pushes |-> 0]
IdleThreads == [th \in Threads |-> IdleThread]
IdleTyper == [at |-> "idle"]
IdleDetector == [deps_graph |-> [keys |-> <<>>, deps |-> <<>>], idx |-> 0,
                 visited |-> {}, cycles |-> <<>>]

Init ==
    /\ program \in Programs
    /\ iterOrder \in SetOrders(Universe(program))
    /\ pc = "types"
    /\ errors = <<>>
    /\ decl_rank = <<>>
    /\ nodes = <<>>
    /\ node_order = <<>>
    /\ sinks = <<>>
    /\ priority_queue = <<>>
    /\ in_queue = {}
    /\ time_step = 0
    /\ last_push = NoPush
    /\ pass_evals = <<>>
    /\ detector = IdleDetector
    /\ threads = IdleThreads
    /\ typer = IdleTyper

(* ------------------------- compile, by phase -------------------------- *)

\* A faulty variant of Report: the errors are recorded and compile goes on.
Report_goes_on(errs, next) ==
    /\ errors' = errors \o errs
    /\ pc' = next

\* A phase that found errors raises CompileError (raise_if_errors).
Report(errs, next) ==
    /\ errors' = errors \o errs
    /\ pc' = IF errs # <<>> THEN "failed" ELSE next

\* compile, step 0a
CompileTypes ==
    /\ pc = "types"
    /\ LET repeated == _compile_type_decl(program) IN
       Report(IF repeated # NoName THEN <<CompileError("Duplicate type definition", repeated)>>
              ELSE <<>>, "funcs")
    /\ UNCHANGED <<program, iterOrder, decl_rank, engineVars, last_push, pass_evals, detector, threads, typer>>

\* compile, step 0b
CompileFuncs ==
    /\ pc = "funcs"
    /\ LET repeated == _compile_func(program) IN
       Report(IF repeated # NoName THEN <<CompileError("Duplicate function definition", repeated)>>
              ELSE <<>>, "duplicates")
    /\ UNCHANGED <<program, iterOrder, decl_rank, engineVars, last_push, pass_evals, detector, threads, typer>>

CheckDuplicates ==
    /\ pc = "duplicates"
    /\ Report(DuplicateDefinitionChecker(program), "undefined")
    /\ UNCHANGED <<program, iterOrder, decl_rank, engineVars, last_push, pass_evals, detector, threads, typer>>

CheckUndefined ==
    /\ pc = "undefined"
    /\ Report(UndefinedReferenceChecker(stream_decls, CollectSourceNames(program), iterOrder),
              "cycles")
    /\ UNCHANGED <<program, iterOrder, decl_rank, engineVars, last_push, pass_evals, detector, threads, typer>>

CheckCycles ==
    /\ pc = "cycles"
    /\ Report(_detect_circular_dependencies(stream_decls, iterOrder), "sources")
    /\ UNCHANGED <<program, iterOrder, decl_rank, engineVars, last_push, pass_evals, detector, threads, typer>>

CompileSources ==
    /\ pc = "sources"
    /\ LET r == CompileSourcesFrom(Graph, Select(program, "source")) IN
       /\ nodes' = r.G.nodes
       /\ node_order' = r.G.node_order
       /\ sinks' = r.G.sinks
       /\ Report(IF r.failed # NoName
                 THEN <<CompileError("Error evaluating initial value for source", r.failed)>>
                 ELSE <<>>, "ranks")
    /\ UNCHANGED <<program, iterOrder, decl_rank, priority_queue, in_queue, time_step,
                   last_push, pass_evals, detector, threads, typer>>

ComputeRanks ==
    /\ pc = "ranks"
    /\ decl_rank' = _compute_ranks(stream_decls)
    /\ pc' = "streams"
    /\ UNCHANGED <<program, iterOrder, errors, engineVars, last_push, pass_evals, detector, threads, typer>>

CompileStreams ==
    /\ pc = "streams"
    /\ LET G == CompileStreamsFrom(Graph, stream_decls,
                                   StreamCompileOrder(stream_decls, decl_rank)) IN
       /\ nodes' = G.nodes
       /\ node_order' = G.node_order
       /\ sinks' = G.sinks
    /\ pc' = "sinks"
    /\ UNCHANGED <<program, iterOrder, errors, decl_rank, priority_queue, in_queue,
                   time_step, last_push, pass_evals, detector, threads, typer>>

CompileSinks ==
    /\ pc = "sinks"
    /\ LET G == CompileSinksFrom(Graph, Select(program, "sink")) IN
       /\ nodes' = G.nodes
       /\ node_order' = G.node_order
       /\ sinks' = G.sinks
    /\ pc' = "initialize"
    /\ UNCHANGED <<program, iterOrder, errors, decl_rank, priority_queue, in_queue,
                   time_step, last_push, pass_evals, detector, threads, typer>>

InitializeValues ==
    /\ pc = "initialize"
    /\ nodes' = _initialize_values(Graph)
    /\ pc' = "ready"
    /\ UNCHANGED <<program, iterOrder, errors, decl_rank, node_order, sinks,
                   priority_queue, in_queue, time_step, last_push, pass_evals, detector, threads, typer>>

(* ----------------------------- push_event ----------------------------- *)

\* A faulty variant of _update_source: the subscribers are enqueued only
\* when the pushed value differs from the cached one.
_update_source_if_changed(ns, Q, source_name, value, ord) ==
    LET ns1 == [ns EXCEPT ![source_name].cached_value = value,
                          ![source_name].is_dirty = TRUE]
    IN [nodes |-> ns1,
        Q |-> IF PyEq(value, ns[source_name].cached_value) THEN Q
              ELSE EnqueueAll(ns1, Q, SetIter(ns1[source_name].subscribers, ord))]

\* A faulty variant of _update_source: every node that is not a source is
\* enqueued, subscriber or not.
_update_source_enqueues_all(ns, Q, source_name, value, ord) ==
    LET ns1 == [ns EXCEPT ![source_name].cached_value = value,
                          ![source_name].is_dirty = TRUE]
    IN [nodes |-> ns1,
        Q |-> EnqueueAll(ns1, Q, SetIter({n \in DOMAIN ns1 : ~ns1[n].is_source}, ord))]

\* _update_source: [nodes, Q]
_update_source(ns, Q, source_name, value, ord) ==
    LET ns1 == [ns EXCEPT ![source_name].cached_value = value,
                          ![source_name].is_dirty = TRUE]
    IN [nodes |-> ns1,
        Q |-> EnqueueAll(ns1, Q, SetIter(ns1[source_name].subscribers, ord))]

\* A faulty variant of UpdateFields: the loop ends after the first field
\* it has updated.
RECURSIVE UpdateFields_first(_, _, _, _, _, _)
UpdateFields_first(ns, Q, source_name, items, ord, updated_any) ==
    IF items = <<>> THEN [nodes |-> ns, Q |-> Q, updated_any |-> updated_any]
    ELSE LET field_node_name == Dotted(source_name, Head(items)[1]) IN
         IF field_node_name \in DOMAIN ns /\ ns[field_node_name].is_source
         THEN LET u == _update_source(ns, Q, field_node_name, Head(items)[2], ord) IN
              [nodes |-> u.nodes, Q |-> u.Q, updated_any |-> TRUE]
         ELSE UpdateFields_first(ns, Q, source_name, Tail(items), ord, updated_any)

\* The loop of push_event over value.items(): [nodes, Q, updated_any]
RECURSIVE UpdateFields(_, _, _, _, _, _)
UpdateFields(ns, Q, source_name, items, ord, updated_any) ==
    IF items = <<>> THEN [nodes |-> ns, Q |-> Q, updated_any |-> updated_any]
    ELSE LET field_node_name == Dotted(source_name, Head(items)[1]) IN
         IF field_node_name \in DOMAIN ns /\ ns[field_node_name].is_source
         THEN LET u == _update_source(ns, Q, field_node_name, Head(items)[2], ord) IN
              UpdateFields(u.nodes, u.Q, source_name, Tail(items), ord, TRUE)
         ELSE UpdateFields(ns, Q, source_name, Tail(items), ord, updated_any)

Queue == [priority_queue |-> priority_queue, in_queue |-> in_queue]

\* A faulty variant of PushFails: the call counts as a time step all the same.
PushFails_counted(source_name, value) ==
    /\ last_push' = [name |-> source_name, is_record |-> value.t = "struct",
                     status |-> "ValueError"]
    /\ time_step' = time_step + 1
    /\ UNCHANGED <<program, iterOrder, pc, errors, decl_rank, nodes, node_order, sinks,
                   priority_queue, in_queue, pass_evals, detector, threads, typer>>

\* push_event raises ValueError.
PushFails(source_name, value) ==
    /\ last_push' = [name |-> source_name, is_record |-> value.t = "struct",
                     status |-> "ValueError"]
    /\ UNCHANGED <<program, iterOrder, pc, errors, decl_rank, engineVars, pass_evals, detector, threads, typer>>

PushStarts(source_name, value, u) ==
    /\ nodes' = u.nodes
    /\ priority_queue' = u.Q.priority_queue
    /\ in_queue' = u.Q.in_queue
    /\ last_push' = [name |-> source_name, is_record |-> value.t = "struct",
                     status |-> "ok"]
    /\ pass_evals' = <<>>
    /\ pc' = "propagate"
    /\ UNCHANGED <<program, iterOrder, errors, decl_rank, node_order, sinks, time_step, detector, threads, typer>>

\* push_event(source_name, value) up to its call of propagate(); `items`
\* is value.items() when the value is a dict, and <<>> otherwise.
push_event(source_name, value, items) ==
    IF source_name \in DOMAIN nodes /\ ~nodes[source_name].is_source
    THEN IF value.t = "struct"
         THEN LET u == UpdateFields(nodes, Queue, source_name, items, iterOrder, FALSE) IN
              IF u.updated_any THEN PushStarts(source_name, value, u)
              ELSE PushFails(source_name, value)
         ELSE PushFails(source_name, value)
    ELSE IF source_name \notin DOMAIN nodes
    THEN PushFails(source_name, value)
    ELSE PushStarts(source_name, value,
                    _update_source(nodes, Queue, source_name, value, iterOrder))

PushEvent ==
    /\ pc = "ready"
    /\ time_step < MaxPushes
    /\ \E source_name \in DOMAIN nodes \cup {Unregistered} :
          \/ \E v \in PushInts : push_event(source_name, IntV(v), <<>>)
          \/ \E items \in PushDicts : push_event(source_name, DictV(items), items)
          \/ \E elems \in PushArrays :
                /\ source_name \in DOMAIN nodes
                /\ nodes[source_name].cached_value.t = "array"
                /\ push_event(source_name, ArrayV(elems), <<>>)

\* A faulty variant of PropagateStep: the subscribers are enqueued whether
\* the value has changed or not.
PropagateStep_unpruned ==
    /\ pc = "propagate"
    /\ priority_queue # <<>>
    /\ LET popped == heappop(priority_queue)
           node_name == popped.item.name
           node == nodes[node_name]
           new_value == _recompute(nodes, node)
           Q1 == [priority_queue |-> popped.heap, in_queue |-> in_queue \ {node_name}]
           changed == ~PyEq(new_value, node.cached_value)
           new_state == RecomputedState(nodes, node)
       IN /\ nodes' = [nodes EXCEPT ![node_name].state = new_state,
                                    ![node_name].cached_value =
                                        IF changed THEN new_value ELSE @]
          /\ LET Q2 == EnqueueAll(nodes, Q1, SetIter(node.subscribers, iterOrder))
             IN /\ priority_queue' = Q2.priority_queue
                /\ in_queue' = Q2.in_queue
          /\ pass_evals' = IF Len(pass_evals) < MaxPassEvals
                            THEN Append(pass_evals, [name |-> node_name,
                                                     reads |-> RecomputeArgs(nodes, node)])
                            ELSE pass_evals
    /\ UNCHANGED <<program, iterOrder, pc, errors, decl_rank, node_order, sinks,
                   time_step, last_push, detector, threads, typer>>

\* A faulty variant of PropagateStep: a formula that raises ends the pass,
\* and the nodes still in the heap are dropped.
PropagateStep_stopping ==
    /\ pc = "propagate"
    /\ priority_queue # <<>>
    /\ LET popped == heappop(priority_queue)
           node_name == popped.item.name
           node == nodes[node_name]
           new_value == _recompute(nodes, node)
           raised == /\ ~node.is_source
                     /\ node.formula.fk # "none"
                     /\ IsErr(ApplyFormula(nodes, node, RecomputeArgs(nodes, node)))
           Q1 == [priority_queue |-> popped.heap, in_queue |-> in_queue \ {node_name}]
           changed == ~PyEq(new_value, node.cached_value)
           new_state == RecomputedState(nodes, node)
       IN /\ nodes' = [nodes EXCEPT ![node_name].state = new_state,
                                    ![node_name].cached_value =
                                        IF changed THEN new_value ELSE @]
          /\ LET Q2 == IF raised
                       THEN [priority_queue |-> <<>>, in_queue |-> {}]
                       ELSE IF changed
                       THEN EnqueueAll(nodes, Q1, SetIter(node.subscribers, iterOrder))
                       ELSE Q1
             IN /\ priority_queue' = Q2.priority_queue
                /\ in_queue' = Q2.in_queue
          /\ pass_evals' = IF Len(pass_evals) < MaxPassEvals
                            THEN Append(pass_evals, [name |-> node_name,
                                                     reads |-> RecomputeArgs(nodes, node)])
                            ELSE pass_evals
    /\ UNCHANGED <<program, iterOrder, pc, errors, decl_rank, node_order, sinks,
                   time_step, last_push, detector, threads, typer>>

\* One iteration of propagate()'s loop.
PropagateStep ==
    /\ pc = "propagate"
    /\ priority_queue # <<>>
    /\ LET popped == heappop(priority_queue)
           node_name == popped.item.name
           node == nodes[node_name]
           new_value == _recompute(nodes, node)
           Q1 == [priority_queue |-> popped.heap, in_queue |-> in_queue \ {node_name}]
           changed == ~PyEq(new_value, node.cached_value)
           new_state == RecomputedState(nodes, node)
       IN /\ nodes' = [nodes EXCEPT ![node_name].state = new_state,
                                    ![node_name].cached_value =
                                        IF changed THEN new_value ELSE @]
          /\ LET Q2 == IF changed
                       THEN EnqueueAll(nodes, Q1, SetIter(node.subscribers, iterOrder))
                       ELSE Q1
             IN /\ priority_queue' = Q2.priority_queue
                /\ in_queue' = Q2.in_queue
          /\ pass_evals' = IF Len(pass_evals) < MaxPassEvals
                            THEN Append(pass_evals, [name |-> node_name,
                                                     reads |-> RecomputeArgs(nodes, node)])
                            ELSE pass_evals
    /\ UNCHANGED <<program, iterOrder, pc, errors, decl_rank, node_order, sinks,
                   time_step, last_push, detector, threads, typer>>

\* propagate() leaves its loop and push_event returns.
PropagateDone ==
    /\ pc = "propagate"
    /\ priority_queue = <<>>
    /\ time_step' = time_step + 1
    /\ pc' = "ready"
    /\ UNCHANGED <<program, iterOrder, errors, decl_rank, nodes, node_order, sinks,
                   priority_queue, in_queue, last_push, pass_evals, detector, threads, typer>>

(* -------------------- the cycle detector on its own ------------------- *)

GraphNodeNames == <<Nm("n1"), Nm("n2"), Nm("n3"), Nm("n4"), Nm("n5")>>
GraphNames == {GraphNodeNames[i] : i \in 1..MaxGraphNodes}

RECURSIVE Perms(_)
Perms(S) ==
    IF S = {} THEN {<<>>}
    ELSE UNION {{<<x>> \o p : p \in Perms(S \ {x})} : x \in S}

\* Every graph without self-edges over the names: any subset of them as
\* keys (in a fixed order; renaming gives the others), any dependency sets.
NoSelfEdges(f) == \A n \in DOMAIN f : n \notin f[n]

DepsGraphs ==
    UNION {{[keys |-> SelectSeq(SubSeq(GraphNodeNames, 1, MaxGraphNodes),
                                LAMBDA n : n \in K),
             deps |-> f] :
            f \in {f \in [K -> SUBSET GraphNames] : NoSelfEdges(f)}} :
           K \in SUBSET GraphNames}

\* The programs that reach compile's cycle check.
CheckedPrograms ==
    {prog \in Programs :
        /\ _compile_type_decl(prog) = NoName
        /\ _compile_func(prog) = NoName
        /\ DuplicateDefinitionChecker(prog) = <<>>
        /\ \A ord \in SetOrders(Universe(prog)) :
              UndefinedReferenceChecker(Select(prog, "stream"),
                                        CollectSourceNames(prog), ord) = <<>>}

\* The detector starts on any graph, or on the graph that
\* _detect_circular_dependencies builds for a program.
InitDetector ==
    /\ \/ /\ program = <<>>
          /\ iterOrder \in Perms(GraphNames)
          /\ \E g \in DepsGraphs :
                detector = [deps_graph |-> g, idx |-> 0, visited |-> {}, cycles |-> <<>>]
       \/ /\ program \in CheckedPrograms
          /\ iterOrder \in SetOrders(Universe(program))
          /\ detector = [deps_graph |-> BuildDepsGraph(stream_decls), idx |-> 0,
                         visited |-> {}, cycles |-> <<>>]
    /\ pc = "detect"
    /\ errors = <<>>
    /\ decl_rank = <<>>
    /\ nodes = <<>>
    /\ node_order = <<>>
    /\ sinks = <<>>
    /\ priority_queue = <<>>
    /\ in_queue = {}
    /\ time_step = 0
    /\ last_push = NoPush
    /\ pass_evals = <<>>
    /\ threads = IdleThreads
    /\ typer = IdleTyper

\* find_all_cycles: one root of its loop
DetectRoot ==
    /\ pc = "detect"
    /\ detector.idx < Len(detector.deps_graph.keys)
    /\ LET st == FindCyclesStep(detector.deps_graph, iterOrder,
                                detector.deps_graph.keys[detector.idx + 1],
                                detector.visited, detector.cycles)
       IN detector' = [detector EXCEPT !.idx = @ + 1,
                                       !.visited = st.visited,
                                       !.cycles = st.cycles]
    /\ UNCHANGED <<program, iterOrder, pc, errors, decl_rank, engineVars,
                   last_push, pass_evals, threads, typer>>

\* find_all_cycles returns, and each cycle becomes a CircularDependencyError
DetectReturn ==
    /\ pc = "detect"
    /\ detector.idx = Len(detector.deps_graph.keys)
    /\ pc' = "detected"
    /\ errors' = [i \in 1..Len(detector.cycles) |->
                     CircularDependencyError(detector.cycles[i])]
    /\ UNCHANGED <<program, iterOrder, decl_rank, engineVars,
                   last_push, pass_evals, detector, threads, typer>>

NextDetector == DetectRoot \/ DetectReturn

SpecDetector == InitDetector /\ [][NextDetector]_vars

Next ==
    \/ CompileTypes
    \/ CompileFuncs
    \/ CheckDuplicates
    \/ CheckUndefined
    \/ CheckCycles
    \/ CompileSources
    \/ ComputeRanks
    \/ CompileStreams
    \/ CompileSinks
    \/ InitializeValues
    \/ PushEvent
    \/ PropagateStep
    \/ PropagateDone

Spec == Init /\ [][Next]_vars

IsProgram(base) == program \in TextualOrders(base)

\* push_event runs propagate() in the caller's thread: the loop takes its
\* next iteration while the heap is not empty, and leaves when it is.  The
\* fairness of the iteration is WF_vars(PropagateStep) with its enabling
\* condition written out: an iteration is enabled exactly in InPass, and a
\* step that leaves a state of InPass is an iteration.
InPass == pc = "propagate" /\ priority_queue # <<>>
Fairness == []<>~InPass \/ []<><<InPass>>_vars

SpecFair == Init /\ [][Next]_vars /\ WF_vars(PropagateDone) /\ Fairness

(* ------------------------- the type checker --------------------------- *)

\* TypeNode: BasicType(name), ArrayType(element_type), StructType(fields)
BasicType(name) == [k |-> "basic", name |-> name]
ArrayType(element_type) == [k |-> "array", element_type |-> element_type]
StructType(fields) == [k |-> "struct", fields |-> fields]

_get_basic_type_name(t) == IF t.k = "basic" THEN t.name ELSE "any"

RECURSIVE _types_compatible(_, _)
_types_compatible(declared, inferred) ==
    IF _get_basic_type_name(declared) = "any" THEN TRUE
    ELSE IF _get_basic_type_name(inferred) = "any" THEN TRUE
    ELSE IF /\ declared.k = "basic" /\ inferred.k = "basic"
            /\ \/ declared.name = inferred.name
               \/ declared.name = "float" /\ inferred.name = "int"
    THEN TRUE
    ELSE IF declared.k = "array" /\ inferred.k = "array"
    THEN _types_compatible(declared.element_type, inferred.element_type)
    ELSE IF declared.k = "struct" /\ inferred.k = "struct"
    THEN /\ DOMAIN declared.fields = DOMAIN inferred.fields
         /\ \A f \in DOMAIN declared.fields :
               _types_compatible(declared.fields[f], inferred.fields[f])
    ELSE FALSE

RECURSIVE _common_type(_, _)
_common_type(t1, t2) ==
    LET t1_name == _get_basic_type_name(t1)
        t2_name == _get_basic_type_name(t2)
    IN IF t1_name = "any" THEN t2
       ELSE IF t2_name = "any" THEN t1
       ELSE IF \/ t1_name = "int" /\ t2_name = "float"
               \/ t1_name = "float" /\ t2_name = "int"
       THEN BasicType("float")
       ELSE IF t1_name = t2_name THEN t1
       ELSE IF t1.k = "array" /\ t2.k = "array"
       THEN ArrayType(_common_type(t1.element_type, t2.element_type))
       ELSE BasicType("any")

\* _infer_if_expression, on the types inferred for the two branches
_infer_if_expression(then_type, else_type) == _common_type(then_type, else_type)

\* The types the checker is run on: the basic types, arrays of them up to
\* MaxTypeDepth brackets, and the structs with fields among x, y of basic
\* or one-bracket array type.
MaxTypeDepth == 2
BasicNames == {"any", "int", "float", "bool", "string"}
BasicTypes == {BasicType(n) : n \in BasicNames}
RECURSIVE ArrayTypes(_)
ArrayTypes(depth) ==
    IF depth = 0 THEN BasicTypes
    ELSE LET inner == ArrayTypes(depth - 1) IN inner \cup {ArrayType(t) : t \in inner}
FieldTypes == {BasicType("int"), BasicType("float"), BasicType("string"),
               ArrayType(BasicType("int"))}
StructTypes ==
    UNION {{StructType(fs) : fs \in [names -> FieldTypes]} :
              names \in (SUBSET {"x", "y"}) \ {{}}}
TypeNodes == ArrayTypes(MaxTypeDepth) \cup StructTypes

InitTyper ==
    /\ program = <<>>
    /\ iterOrder = <<>>
    /\ pc = "typecheck"
    /\ errors = <<>>
    /\ decl_rank = <<>>
    /\ nodes = <<>>
    /\ node_order = <<>>
    /\ sinks = <<>>
    /\ priority_queue = <<>>
    /\ in_queue = {}
    /\ time_step = 0
    /\ last_push = NoPush
    /\ pass_evals = <<>>
    /\ detector = IdleDetector
    /\ threads = IdleThreads
    /\ \E t1, t2 \in TypeNodes : typer = [at |-> "called", t1 |-> t1, t2 |-> t2]

\* self._types_compatible(declared, inferred), as check_statement calls it
TypesCompatible ==
    /\ typer.at = "called"
    /\ typer' = [at |-> "compatible", t1 |-> typer.t1, t2 |-> typer.t2,
                 result |-> _types_compatible(typer.t1, typer.t2)]
    /\ UNCHANGED <<program, iterOrder, pc, errors, decl_rank, engineVars, last_push,
                   pass_evals, detector, threads>>

\* the type of `if c then A else B end` with A : t1 and B : t2
InferIfExpression ==
    /\ typer.at = "called"
    /\ typer' = [at |-> "if", t1 |-> typer.t1, t2 |-> typer.t2,
                 result |-> _infer_if_expression(typer.t1, typer.t2)]
    /\ UNCHANGED <<program, iterOrder, pc, errors, decl_rank, engineVars, last_push,
                   pass_evals, detector, threads>>

NextTyper == TypesCompatible \/ InferIfExpression

SpecTyper == InitTyper /\ [][NextTyper]_vars

(* ------------------- push_event from two threads ---------------------- *)

(* RippleRunner.interactive_mode calls engine.push_event on the main       *)
(* thread; the callback that setup_watcher hands to CSVWatcher calls       *)
(* engine.push_event on the watcher's thread.  Neither takes a lock, and   *)
(* the engine has none, so the statements of the two calls interleave.     *)

MaxThreadPushes == 1

ThreadPrograms == TextualOrders(Diamond)

InitThreads == Init /\ program \in ThreadPrograms

\* A thread calls push_event(source_name, value) on a source: the call runs
\* _update_source and enters propagate().
ThreadPush(th) ==
    /\ pc = "ready"
    /\ threads[th].at = "idle"
    /\ threads[th].pushes < MaxThreadPushes
    /\ \E source_name \in {n \in DOMAIN nodes : nodes[n].is_source} : \E v \in PushInts :
          LET u == _update_source(nodes, Queue, source_name, IntV(v), iterOrder) IN
          /\ nodes' = u.nodes
          /\ priority_queue' = u.Q.priority_queue
          /\ in_queue' = u.Q.in_queue
    /\ threads' = [threads EXCEPT ![th].at = "while", ![th].pushes = @ + 1]
    /\ UNCHANGED <<program, iterOrder, pc, errors, decl_rank, node_order, sinks,
                   time_step, last_push, pass_evals, detector, typer>>

\* propagate(): the loop test, heappop and in_queue.remove of one iteration
ThreadPop(th) ==
    /\ threads[th].at = "while"
    /\ priority_queue # <<>>
    /\ LET popped == heappop(priority_queue) IN
          /\ priority_queue' = popped.heap
          /\ in_queue' = in_queue \ {popped.item.name}
          /\ threads' = [threads EXCEPT ![th].at = "recompute",
                                        ![th].node_name = popped.item.name]
    /\ UNCHANGED <<program, iterOrder, pc, errors, decl_rank, nodes, node_order, sinks,
                   time_step, last_push, pass_evals, detector, typer>>

\* propagate(): _recompute, the comparison and the notification of the
\* subscribers of the same iteration
ThreadRecompute(th) ==
    /\ threads[th].at = "recompute"
    /\ LET node_name == threads[th].node_name
           node == nodes[node_name]
           new_value == _recompute(nodes, node)
           changed == ~PyEq(new_value, node.cached_value)
           Q2 == IF changed
                 THEN EnqueueAll(nodes, Queue, SetIter(node.subscribers, iterOrder))
                 ELSE Queue
       IN /\ nodes' = [nodes EXCEPT ![node_name].state = RecomputedState(nodes, node),
                                    ![node_name].cached_value =
                                        IF changed THEN new_value ELSE @]
          /\ priority_queue' = Q2.priority_queue
          /\ in_queue' = Q2.in_queue
    /\ threads' = [threads EXCEPT ![th].at = "while", ![th].node_name = NoName]
    /\ UNCHANGED <<program, iterOrder, pc, errors, decl_rank, node_order, sinks,
                   time_step, last_push, pass_evals, detector, typer>>

\* propagate() finds the heap empty, counts the time step and returns.
ThreadReturn(th) ==
    /\ threads[th].at = "while"
    /\ priority_queue = <<>>
    /\ time_step' = time_step + 1
    /\ threads' = [threads EXCEPT ![th].at = "idle"]
    /\ UNCHANGED <<program, iterOrder, pc, errors, decl_rank, nodes, node_order, sinks,
                   priority_queue, in_queue, last_push, pass_evals, detector, typer>>

NextThreads ==
    \/ CompileTypes
    \/ CompileFuncs
    \/ CheckDuplicates
    \/ CheckUndefined
    \/ CheckCycles
    \/ CompileSources
    \/ ComputeRanks
    \/ CompileStreams
    \/ CompileSinks
    \/ InitializeValues
    \/ \E th \in Threads : ThreadPush(th)
    \/ \E th \in Threads : ThreadPop(th)
    \/ \E th \in Threads : ThreadRecompute(th)
    \/ \E th \in Threads : ThreadReturn(th)

SpecThreads == InitThreads /\ [][NextThreads]_vars

(* ============================== claims =============================== *)

Registered == DOMAIN nodes
Value(n) == nodes[n].cached_value

\* The nodes a change of s can reach along dependency edges.
RECURSIVE ReachableFrom(_)
ReachableFrom(S) ==
    LET more == {n \in Registered : nodes[n].dependencies \cap S # {}} IN
    IF more \subseteq S THEN S ELSE ReachableFrom(S \cup more)

Downstream(s) == ReachableFrom({s}) \ {s}

\* The trigger set of a registered stream: the trigger its declaration
\* names, or else all its dependencies.
DeclOf(n) ==
    CHOOSE d \in SeqToSet(program) \cup {StreamDecl("", Nil, NoName)} :
        IF \E e \in SeqToSet(program) : e.name = n /\ e.kind \in {"stream", "sink"}
        THEN d \in SeqToSet(program) /\ d.name = n /\ d.kind \in {"stream", "sink"}
        ELSE d = StreamDecl("", Nil, NoName)

TriggerSet(n) ==
    IF nodes[n].has_trigger
    THEN {_normalize_dependency(Graph, DeclOf(n).trigger)}
    ELSE nodes[n].dependencies

\* The engine graph has a cycle through at least two nodes: some node
\* reaches one of its other dependencies along dependency edges.
EngineHasCycle ==
    \E n \in Registered : \E d \in (nodes[n].dependencies \cap Registered) \ {n} :
        d \in ReachableFrom({n})

\* The declared dependency graph of the program, self-edges removed:
\* each stream or sink depends on the base names its expression and
\* trigger mention.
DeclaredDeps(d) ==
    ({BaseName(x) : x \in extract_dependencies(d.expression)}
       \cup (IF d.trigger # NoName THEN {BaseName(d.trigger)} ELSE {})) \ {d.name}

RECURSIVE DeclReach(_)
DeclReach(S) ==
    LET more == {d.name : d \in {d \in SeqToSet(program) :
                     d.kind \in {"stream", "sink"} /\ DeclaredDeps(d) \cap S # {}}} IN
    IF more \subseteq S THEN S ELSE DeclReach(S \cup more)

ProgramHasCycle ==
    \E d \in SeqToSet(program) :
        d.kind \in {"stream", "sink"} /\ \E x \in DeclaredDeps(d) : x \in DeclReach({d.name})

\* C1  Glitch-freedom: when a pass has ended, every value a node read for
\* one of its other dependencies while it was recomputed in that pass is
\* that dependency's cached value at the end of the pass.
C1_GlitchFree ==
    (pc = "ready" /\ time_step > 0) =>
        \A i \in 1..Len(pass_evals) :
            \A d \in (DOMAIN pass_evals[i].reads) \ {pass_evals[i].name} :
                PyEq(pass_evals[i].reads[d], Value(d))

\* C2  At-most-once evaluation: within one push_event no node is recomputed
\* twice, and a node that was popped is not in the heap again.
C2_AtMostOnce ==
    /\ \A i, j \in 1..Len(pass_evals) :
          i # j => pass_evals[i].name # pass_evals[j].name
    /\ pc = "propagate" =>
          \A i \in 1..Len(pass_evals) : pass_evals[i].name \notin in_queue

\* C3  Change propagation: after push_event(s, v) returns, every non-source
\* node without an explicit trigger that s reaches along dependency edges
\* holds its formula applied to the current values of its dependencies.
C3_ChangePropagation ==
    (pc = "ready" /\ last_push.status = "ok") =>
        \A n \in Downstream(last_push.name) :
            (~nodes[n].is_source /\ ~nodes[n].has_trigger) =>
                PyEq(Value(n), _recompute(nodes, nodes[n]))

\* C4 as stated: the diamond's sink reads 3 after compile, 7 after
\* push(A,2), 16 after push(A,5) and 31 after push(A,10).
DiamondReads(initial) ==
    (IsProgram(Diamond) /\ pc = "ready") =>
        /\ time_step = 0 => Value(Nm("out")) = IntV(initial)
        /\ (time_step > 0 /\ Value(Nm("A")) = IntV(2)) => Value(Nm("out")) = IntV(7)
        /\ (time_step > 0 /\ Value(Nm("A")) = IntV(5)) => Value(Nm("out")) = IntV(16)
        /\ (time_step > 0 /\ Value(Nm("A")) = IntV(10)) => Value(Nm("out")) = IntV(31)

C4_DiamondAsStated == DiamondReads(3)

\* C4 amended: the diamond's sink reads 4 after compile (B = 2, C = 2),
\* 7 after push(A,2), 16 after push(A,5) and 31 after push(A,10).
C4_Diamond == DiamondReads(4)

C4_Witness ==
    /\ IsProgram(Diamond) /\ pc = "ready" /\ time_step = 3
    /\ last_push.name = Nm("A")
    /\ last_push.status = "ok"
    /\ Value(Nm("A")) = IntV(10) /\ Value(Nm("out")) = IntV(31)

\* C5  Rank monotonicity: in a compiled engine every source has rank 0 and
\* every other node a rank above the rank of each other node it depends on.
C5_RankMonotone ==
    pc = "ready" =>
        \A n \in Registered :
            IF nodes[n].is_source THEN nodes[n].rank = 0
            ELSE \A d \in (nodes[n].dependencies \cap Registered) \ {n} :
                    nodes[n].rank > nodes[d].rank

\* C6  Subscriber index: in a compiled engine subscribers(X) is exactly the
\* set of nodes whose trigger set contains X.
C6_SubscriberIndex ==
    pc = "ready" =>
        \A x \in Registered :
            nodes[x].subscribers =
                {y \in Registered : ~nodes[y].is_source /\ x \in TriggerSet(y)}

\* C7  Dependency closure: in a compiled engine every dependency of every
\* node is a registered node, and no node depends on itself.
C7_DependencyClosure ==
    pc = "ready" =>
        \A n \in Registered :
            /\ nodes[n].dependencies \subseteq Registered
            /\ n \notin nodes[n].dependencies

\* C8  Cycle rejection: a compiled engine's dependency graph is acyclic, and
\* a program whose declared dependencies (self-edges removed) form a cycle
\* ends compile with a CircularDependency diagnostic.
C8_CycleRejection ==
    /\ pc = "ready" => ~EngineHasCycle
    /\ (pc \in {"ready", "failed"} /\ ProgramHasCycle) =>
          \E i \in 1..Len(errors) : errors[i].etype = "CircularDependency"

\* C9  Cycle path validity: every path find_all_cycles has reported begins
\* and ends with the same node and follows edges of the graph.
C9_CyclePathsValid ==
    \A i \in 1..Len(detector.cycles) :
        LET c == detector.cycles[i] IN
        /\ Len(c) >= 2
        /\ c[1] = c[Len(c)]
        /\ \A j \in 1..(Len(c) - 1) :
              /\ c[j] \in DOMAIN detector.deps_graph.deps
              /\ c[j + 1] \in detector.deps_graph.deps[c[j]]

\* find_all_cycles has returned a cycle that the first root, which has
\* an outgoing edge, is not on
C9_Witness ==
    /\ pc = "detected"
    /\ Len(detector.deps_graph.keys) = MaxGraphNodes
    /\ \E i \in 1..Len(detector.cycles) :
          /\ Len(detector.cycles[i]) = 3
          /\ detector.deps_graph.keys[1] \notin SeqToSet(detector.cycles[i])
          /\ detector.deps_graph.deps[detector.deps_graph.keys[1]] # {}

\* The simple cycles of a graph, each as the list of its nodes.
SimpleCycles(g) ==
    {s \in UNION {Perms(S) : S \in SUBSET (DOMAIN g.deps) \ {{}}} :
        \A i \in 1..Len(s) : s[(i % Len(s)) + 1] \in g.deps[s[i]]}

IsRotation(path, s) ==
    /\ Len(path) = Len(s) + 1
    /\ \E r \in 0..(Len(s) - 1) :
          \A i \in 1..Len(s) : path[i] = s[((i - 1 + r) % Len(s)) + 1]

\* C10  Cycle completeness: when find_all_cycles returns, every simple
\* cycle of the graph has a rotation among the reported paths.
C10_CyclesComplete ==
    pc = "detected" =>
        \A s \in SimpleCycles(detector.deps_graph) :
            \E i \in 1..Len(detector.cycles) : IsRotation(detector.cycles[i], s)

NoCircularDependency ==
    \A i \in 1..Len(errors) : errors[i].etype # "CircularDependency"

\* C11  No false cycles: on a graph without a cycle find_all_cycles reports
\* nothing, also when a node is reached again after it was fully visited;
\* and for a program whose declared dependencies, self-references removed,
\* form no cycle the cycle check reports no CircularDependency.
C11_NoFalseCycles ==
    /\ SimpleCycles(detector.deps_graph) = {} => detector.cycles = <<>>
    /\ (program # <<>> /\ ~ProgramHasCycle) =>
          (detector.cycles = <<>> /\ NoCircularDependency)

\* the cycle check has returned for the diamond whose join refers to its
\* own previous value: A is reached again from C after B's visit of it
C11_Witness ==
    /\ IsProgram(PreDiamond)
    /\ pc = "detected"
    /\ detector.idx = 3
    /\ Nm("D") \in extract_dependencies(program[CHOOSE i \in 1..Len(program) :
                                                   program[i].name = Nm("D")].expression)
    /\ Nm("A") \in detector.visited
    /\ errors = <<>>

\* The declared source and stream names, and the field paths of the
\* struct sources.
DeclaredNames ==
    {program[i].name : i \in {i \in 1..Len(program) : program[i].kind \in {"source", "stream"}}}

FieldPaths ==
    UNION {{Dotted(program[i].name, _get_struct_type(program[i])[j]) :
               j \in 1..Len(_get_struct_type(program[i]))} :
           i \in {i \in 1..Len(program) : program[i].kind = "source"}}

Resolves(d) ==
    \/ d \in DeclaredNames \cup FieldPaths
    \/ Len(d) > 1 /\ <<d[1]>> \in DeclaredNames

ErrorSet == {errors[i] : i \in 1..Len(errors)}
ErrorsOf(etype) == {e \in ErrorSet : e.etype = etype}

\* The undefined-reference check has run: the duplicate check found nothing.
UndefinedCheckRan ==
    /\ pc \notin {"types", "funcs", "duplicates", "undefined", "detect", "detected"}
    /\ ErrorsOf("DuplicateDefinition") = {}
    /\ \A e \in ErrorsOf("CompileError") :
          e.context = <<"Error evaluating initial value for source">>

\* C12  Undefined reference: once the undefined-reference check has run,
\* UndefinedReference(d, stream) is among the diagnostics exactly for the
\* streams and their extracted dependency symbols d that resolve neither
\* exactly (source name, stream name, struct field path) nor by their first
\* segment; and compile has failed in that check exactly if there is one.
C12_UndefinedReference ==
    UndefinedCheckRan =>
        LET unresolved ==
                UNION {{UndefinedReferenceError(d, program[i].name) :
                           d \in {d \in extract_dependencies(program[i].expression) :
                                     ~Resolves(d)}} :
                       i \in {i \in 1..Len(program) : program[i].kind = "stream"}}
        IN /\ ErrorsOf("UndefinedReference") = unresolved
           /\ unresolved # {} <=> (pc = "failed" /\ ErrorsOf("UndefinedReference") # {})

\* compile has failed on the program with three unresolved symbols, one
\* of them dotted with an undeclared first segment
C12_Witness ==
    /\ IsProgram(UndefinedMany)
    /\ pc = "failed"
    /\ UndefinedReferenceError(Dotted(Nm("q"), "x"), Nm("D")) \in ErrorSet
    /\ UndefinedReferenceError(Nm("X"), Nm("B")) \in ErrorSet
    /\ Len(errors) = 3

\* d names no declaration of any kind, exactly or by its first segment.
Undeclared(d) ==
    LET all_names == {program[i].name : i \in 1..Len(program)} IN
    /\ d \notin all_names \cup FieldPaths
    /\ <<d[1]>> \notin all_names

\* C13  Sinks are reference-checked: once the undefined-reference check has
\* run on a program in which a sink's expression references an undeclared
\* name, compile has failed and UndefinedReference(name, sink) is among the
\* diagnostics.
C13_SinksReferenceChecked ==
    UndefinedCheckRan =>
        \A i \in {i \in 1..Len(program) : program[i].kind = "sink"} :
            \A d \in {d \in extract_dependencies(program[i].expression) : Undeclared(d)} :
                /\ pc = "failed"
                /\ UndefinedReferenceError(d, program[i].name) \in ErrorSet

\* How often x occurs in the sequence s.
Count(s, x) == Cardinality({i \in 1..Len(s) : s[i] = x})

DeclNames == [i \in 1..Len(program) |-> program[i].name]

\* C14  Duplicate definition: once compile is past its duplicate check,
\* every name carries one DuplicateDefinition diagnostic per redefinition
\* (declarations of the name, less one), whatever the kinds of the
\* declarations; and if some name is declared twice compile has failed.
C14_DuplicateDefinition ==
    pc \notin {"types", "funcs", "duplicates", "detect", "detected"} =>
        \A n \in SeqToSet(DeclNames) :
            /\ Count(errors, DuplicateDefinitionError(n)) = Count(DeclNames, n) - 1
            /\ Count(DeclNames, n) > 1 => pc = "failed"

ReportedCycles ==
    {e.path : e \in ErrorsOf("CircularDependency")}

\* C15  Batch diagnostics: when compile has failed in a static check, the
\* diagnostics hold every error of that check over the whole program: one
\* DuplicateDefinition per redefinition, one UndefinedReference per
\* undeclared name that a stream or sink references, and a path for every
\* simple cycle of the streams' dependency graph.
C15_BatchDiagnostics ==
    pc = "failed" =>
        /\ ErrorsOf("DuplicateDefinition") # {} =>
              \A n \in SeqToSet(DeclNames) :
                  Count(errors, DuplicateDefinitionError(n)) = Count(DeclNames, n) - 1
        /\ ErrorsOf("UndefinedReference") # {} =>
              \A i \in {i \in 1..Len(program) : program[i].kind \in {"stream", "sink"}} :
                  \A d \in {d \in extract_dependencies(program[i].expression) : Undeclared(d)} :
                      UndefinedReferenceError(d, program[i].name) \in ErrorSet
        /\ ErrorsOf("CircularDependency") # {} =>
              \A c \in SimpleCycles(BuildDepsGraph(stream_decls)) :
                  \E path \in ReportedCycles : IsRotation(path, c)

\* What each static check has to find in the program.
HasDuplicate == \E n \in SeqToSet(DeclNames) : Count(DeclNames, n) > 1
HasUndefined ==
    \E i \in {i \in 1..Len(program) : program[i].kind = "stream"} :
        \E d \in extract_dependencies(program[i].expression) : ~Resolves(d)
\* The streams that mention a name of S, as written, in their expression
\* or trigger, and transitively.
Mentions(d) == (extract_dependencies(d.expression) \cup {d.trigger}) \ {d.name}

RECURSIVE MentionReach(_)
MentionReach(S) ==
    LET more == {d.name : d \in {d \in SeqToSet(program) :
                     d.kind = "stream" /\ Mentions(d) \cap S # {}}} IN
    IF more \subseteq S THEN S ELSE MentionReach(S \cup more)

HasCycle ==
    \E d \in SeqToSet(program) :
        d.kind = "stream" /\ \E x \in Mentions(d) : x \in MentionReach({d.name})

StaticErrors ==
    ErrorsOf("DuplicateDefinition") \cup ErrorsOf("UndefinedReference")
        \cup ErrorsOf("CircularDependency")

\* The check that compile's fixed order makes report for this program.
FirstFailingCheck ==
    IF HasDuplicate THEN "DuplicateDefinition"
    ELSE IF HasUndefined THEN "UndefinedReference"
    ELSE "CircularDependency"

\* C16  Abort on static error: a program with a duplicate, an undefined
\* reference or a cycle among its streams never gets a node registered;
\* when a static check has reported, compile has failed, and all the
\* diagnostics are of the first check, in the order duplicate, undefined
\* reference, cycle, that has something to report.
C16_AbortOnStaticError ==
    /\ (HasDuplicate \/ HasUndefined \/ HasCycle) =>
          (nodes = <<>> /\ sinks = <<>> /\ pc # "ready")
    /\ StaticErrors # {} =>
          /\ pc \in {"failed", "detected"}
          /\ nodes = <<>>
          /\ pc = "failed" => \A e \in ErrorSet : e.etype = FirstFailingCheck

\* compile has failed on a program with a duplicate, an undefined
\* reference and a cycle: only the duplicate is reported
C16_Witness ==
    /\ IsProgram(AllThree)
    /\ pc = "failed"
    /\ errors = <<DuplicateDefinitionError(Nm("C"))>>
    /\ nodes = <<>>

\* The name is a source declared with a struct type.
IsStructSource(n) ==
    \E d \in SeqToSet(program) :
        d.kind = "source" /\ d.name = n /\ _get_struct_type(d) # <<>>

\* The call of push_event that this step makes, by the claim, has to fail.
PushMustFail ==
    LET n == last_push'.name IN
    \/ n \notin DOMAIN nodes
    \/ ~nodes[n].is_source /\ ~(IsStructSource(n) /\ last_push'.is_record)

\* C17  push_event fails when the name is not a registered node, or is a
\* registered node that is not a source and not a struct source pushed a
\* record; a failing call changes no cached value, no temporal state,
\* nothing of the heap and not the time step, and runs no propagation pass.
C17_PushFailure ==
    [][pc = "ready" =>
          /\ PushMustFail => last_push'.status = "ValueError"
          /\ last_push'.status = "ValueError" =>
                /\ pc' = "ready"
                /\ UNCHANGED <<nodes, node_order, sinks, priority_queue, in_queue,
                               time_step, pass_evals>>]_vars

\* after a push that went through, a push to a stream has failed
C17_Witness ==
    /\ pc = "ready"
    /\ time_step > 0
    /\ last_push.status = "ValueError"
    /\ last_push.name \in DOMAIN nodes
    /\ ~nodes[last_push.name].is_source
    /\ ~IsStructSource(last_push.name)
    /\ \E n \in DOMAIN nodes : ~nodes[n].is_source /\ nodes[n].cached_value.t = "int"

\* C18  Quiescence: every push_event call on a compiled engine comes to
\* its end, and when it has returned the scheduler heap and the in-heap set
\* are both empty.
C18_Quiescence ==
    /\ [](pc = "ready" => (priority_queue = <<>> /\ in_queue = {}))
    /\ (pc = "propagate") ~> (pc = "ready")

HeapNames == {priority_queue[i].name : i \in 1..Len(priority_queue)}

\* C19  Heap uniqueness: during and between the passes each node name
\* occurs at most once in the scheduler heap, and the in-heap set is the
\* set of the names in the heap.
C19_HeapUniqueness ==
    /\ \A i, j \in 1..Len(priority_queue) :
          i # j => priority_queue[i].name # priority_queue[j].name
    /\ in_queue = HeapNames

\* in the diamond B and C have both changed and both enqueued D: D is in
\* the heap once
C19_Witness ==
    /\ IsProgram(Diamond)
    /\ pc = "propagate"
    /\ {pass_evals[i].name : i \in 1..Len(pass_evals)} = {Nm("B"), Nm("C")}
    /\ Value(Nm("B")).t = "int" /\ Value(Nm("B")).v # 2
    /\ Value(Nm("C")).t = "int" /\ Value(Nm("C")).v # 2
    /\ HeapNames = {Nm("D")}
    /\ Len(priority_queue) = 1

\* C20  Change pruning: when the value recomputed for a node equals its
\* cached value, by deep equality of values, the recomputation enqueues no
\* subscriber of the node and leaves the cached value as it was.
C20_ChangePruning ==
    [][(pc = "propagate" /\ priority_queue # <<>>) =>
          LET name == heappop(priority_queue).item.name
              new_value == _recompute(nodes, nodes[name])
          IN PyEq(new_value, nodes[name].cached_value) =>
                /\ nodes'[name].cached_value = nodes[name].cached_value
                /\ in_queue' = in_queue \ {name}
                /\ Len(priority_queue') = Len(priority_queue) - 1
                /\ \A n \in DOMAIN nodes \ {name} :
                      nodes'[n].cached_value = nodes[n].cached_value]_vars

\* A has been pushed a new value; B, which is A * 0, has been recomputed to
\* the 0 it held, and E, which reads B alone, has not been recomputed
C20_Witness ==
    /\ IsProgram(Pruned)
    /\ pc = "ready"
    /\ time_step = 1
    /\ last_push.status = "ok"
    /\ Value(Nm("A")).t = "int" /\ Value(Nm("A")).v # 1
    /\ \E i \in 1..Len(pass_evals) : pass_evals[i].name = Nm("B")
    /\ \A i \in 1..Len(pass_evals) : pass_evals[i].name # Nm("E")

PassNames == {pass_evals[i].name : i \in 1..Len(pass_evals)}
SourcePushed == last_push.name \in DOMAIN nodes /\ nodes[last_push.name].is_source

\* C21  A push fires whatever the value: push_event(s, v) on a source s
\* enqueues every subscriber of s, and the pass recomputes every one of
\* them, also when v is the value s holds already; a stream triggered `on
\* s` is so recomputed on every push to s.
C21_PushFires ==
    [][/\ (pc = "ready" /\ pc' = "propagate" /\ SourcePushed') =>
             nodes[last_push'.name].subscribers \subseteq in_queue'
       /\ (pc = "propagate" /\ pc' = "ready" /\ SourcePushed) =>
             nodes[last_push.name].subscribers \subseteq PassNames]_vars

\* step has been pushed 5, which n `on tick` did not see; then tick has been
\* pushed the 0 it held, and n has been recomputed to 5 + 1
C21_Witness ==
    /\ IsProgram(Triggered)
    /\ pc = "ready"
    /\ time_step = 2
    /\ last_push.name = Nm("tick") /\ last_push.status = "ok"
    /\ Value(Nm("tick")).t = "int" /\ Value(Nm("tick")).v = 0
    /\ Value(Nm("n")).t = "int" /\ Value(Nm("n")).v = 6
    /\ PassNames = {Nm("n"), Nm("m")}

TriggeredNodes == {t \in DOMAIN nodes : nodes[t].has_trigger}
\* The nodes that stand for the trigger of t: the name after `on`, or the
\* stream before its dot.
TriggerNames(t) == {DeclOf(t).trigger, BaseName(DeclOf(t).trigger)}
Running == pc \in {"ready", "propagate"}
Popped == heappop(priority_queue).item.name

\* This step pushes a value to the trigger of t, or recomputes it.
ReachesTrigger(t) ==
    \/ /\ pc = "ready"
       /\ \/ last_push'.name \in TriggerNames(t)
          \/ last_push'.is_record /\ \E x \in TriggerNames(t) : BaseName(x) = last_push'.name
    \/ pc = "propagate" /\ priority_queue # <<>> /\ Popped \in TriggerNames(t)

\* C22  Trigger gating: a stream declared `on X` is subscribed to X alone;
\* it is enqueued only by a step that pushes or recomputes X, and its cached
\* value and temporal state change only when it is itself recomputed: a
\* push that changes another dependency and does not reach X leaves them.
C22_TriggerGating ==
    /\ [](Running => \A t \in TriggeredNodes : \A n \in DOMAIN nodes :
                        t \in nodes[n].subscribers => n \in TriggerNames(t))
    /\ [][Running => \A t \in TriggeredNodes :
             /\ (t \in in_queue' /\ t \notin in_queue) => ReachesTrigger(t)
             /\ (nodes'[t].cached_value # nodes[t].cached_value
                    \/ nodes'[t].state # nodes[t].state)
                  => (pc = "propagate" /\ priority_queue # <<>> /\ Popped = t)]_vars

\* step has been pushed 5: n <- pre(n, 0) + step on tick has not been
\* recomputed, and holds the 1 it held, as value and as state
C22_Witness ==
    /\ IsProgram(TriggeredCounter)
    /\ pc = "ready"
    /\ time_step = 1
    /\ last_push.name = Nm("step") /\ last_push.status = "ok"
    /\ Value(Nm("step")).t = "int" /\ Value(Nm("step")).v = 5
    /\ Nm("n") \notin PassNames
    /\ Value(Nm("n")).t = "int" /\ Value(Nm("n")).v = 1
    /\ nodes[Nm("n")].state.t = "int" /\ nodes[Nm("n")].state.v = 1

AfterCompile == pc = "ready" /\ time_step = 0

\* What the formula of t gives on the values its dependencies hold.
FormulaValue(t) ==
    LET result == evaluate(nodes, DeclOf(t).expression, RecomputeArgs(nodes, nodes[t])) IN
    IF IsErr(result) THEN NoneV ELSE result

IsPrePlus(t) ==
    LET e == DeclOf(t).expression IN
    /\ e.k = "bin" /\ e.operator = "+"
    /\ e.left.k = "pre" /\ Nm(e.left.stream_name) = t /\ e.left.initial_value.k = "lit"
    /\ \/ e.right.k = "lit"
       \/ /\ _get_field_path(e.right) \in DOMAIN nodes
          /\ Value(_get_field_path(e.right)).t = "int"

OperandValue(e) == IF e.k = "lit" THEN e.value ELSE Value(_get_field_path(e)).v

Sources == {n \in DOMAIN nodes : nodes[n].is_source}

\* The stream is pre(itself, init) + k with a literal k, and is fired by the
\* pushes to a tick source, the one source of the program: it has been
\* evaluated once by compile and once by every pass since.
IsTickCounter(t) ==
    /\ IsPrePlus(t)
    /\ DeclOf(t).expression.right.k = "lit"
    /\ Sources = {DeclOf(t).trigger}

\* C25  Temporal pre law: the successive values of a stream pre(s, init) + k
\* fired by a tick source are init + k, init + 2k, init + 3k, ...: every
\* evaluation of pre(s, init) but the first gives the value s had after its
\* previous evaluation.
C25_PreLaw ==
    pc = "ready" =>
        \A t \in TriggeredNodes :
            IsTickCounter(t) =>
               /\ Value(t).t = "int"
               /\ Value(t).v = DeclOf(t).expression.left.initial_value.value
                                 + (time_step + 1) * DeclOf(t).expression.right.value

\* The stream is fold(x, z, (acc, v) => acc + w) on a source x holding an
\* integer, with a literal z and w either the second parameter or a literal.
IsFoldPlus(t) ==
    LET e == DeclOf(t).expression IN
    /\ e.k = "fold" /\ e.initial.k = "lit" /\ e.stream.k = "id"
    /\ Nm(e.stream.name) \in Sources
    /\ Value(Nm(e.stream.name)).t = "int"
    /\ e.body.k = "bin" /\ e.body.operator = "+"
    /\ e.body.left = Id(e.parameters[1])
    /\ e.body.right.k = "lit" \/ e.body.right = Id(e.parameters[2])
\* what one accumulator step adds
FoldOperand(t) ==
    LET e == DeclOf(t).expression IN
    IF e.body.right.k = "lit" THEN e.body.right.value ELSE Value(Nm(e.stream.name)).v

\* C26  Temporal fold law: a stream fold(x, z, (acc, v) => acc + v) on a
\* source x takes one accumulator step per push: the pass of a push of v to
\* x recomputes it from its cached value acc to acc + v, so that after the
\* pushes v1, ..., vn it holds z + v1 + ... + vn.
C26_FoldLaw ==
    [][(pc = "propagate" /\ priority_queue # <<>>) =>
          \A t \in DOMAIN nodes :
              (IsFoldPlus(t) /\ Popped = t /\ Value(t).t = "int") =>
                  /\ nodes'[t].cached_value.t = "int"
                  /\ nodes'[t].cached_value.v = Value(t).v + FoldOperand(t)]_vars

FoldInitial(t) == DeclOf(t).expression.initial.value

\* C27  Fold first evaluation: the first evaluation of a fold node, the one
\* of compile, stores acc := init and returns init without an accumulator
\* step; its second evaluation, in the pass of the first push to its source,
\* applies the accumulator once, to init.
C27_FoldFirstEvaluation ==
    \A t \in DOMAIN nodes :
        (pc = "ready" /\ IsFoldPlus(t)) =>
            /\ time_step = 0 =>
                  /\ Value(t) = IntV(FoldInitial(t))
                  /\ nodes[t].state = IntV(FoldInitial(t))
            /\ (time_step = 1 /\ t \in PassNames) =>
                  Value(t) = IntV(FoldInitial(t) + FoldOperand(t))

RECURSIVE SumOf(_)
SumOf(elems) == IF elems = <<>> THEN 0 ELSE Head(elems).v + SumOf(Tail(elems))

\* C28  Fold over an array-valued source aggregates the elements of the
\* array: stats <- fold(data, {count: 0, sum: 0}, (acc, x) => {count:
\* acc.count + 1, sum: acc.sum + x}) holds the number and the sum of the
\* elements of data, 5 and 15 after compile with data = [1, 2, 3, 4, 5], 3
\* and 60 after push(data, [10, 20, 30]).
C28_FoldOverArray ==
    (IsProgram(FoldArray) /\ pc = "ready" /\ Value(Nm("data")).t = "array") =>
        /\ Value(Nm("stats")).t = "struct"
        /\ Value(Nm("stats")).v["count"] = IntV(Len(Value(Nm("data")).v))
        /\ Value(Nm("stats")).v["sum"] = IntV(SumOf(Value(Nm("data")).v))

\* The formula of node n raises on the values its dependencies hold now.
FormulaRaises(n) ==
    /\ ~nodes[n].is_source
    /\ nodes[n].formula.fk # "none"
    /\ IsErr(ApplyFormula(nodes, nodes[n], RecomputeArgs(nodes, nodes[n])))

\* C29  Runtime error containment: the step of a pass that recomputes a
\* node whose formula raises leaves the cached value of the node as it was,
\* and enqueues none of its subscribers.
C29_ErrorContainment ==
    [][(pc = "propagate" /\ priority_queue # <<>> /\ FormulaRaises(Popped)) =>
          /\ nodes'[Popped].cached_value = nodes[Popped].cached_value
          /\ in_queue' = in_queue \ {Popped}]_vars

\* C30  Runtime errors do not stop the engine: the step of a pass in which
\* a formula raises hands nothing to the caller of push_event (the pass goes
\* on, the push stays accepted, no error is recorded) and keeps every other
\* node of the heap in the heap; a node leaves the heap only by being
\* recomputed; the pass ends only on an empty heap, and push_event then
\* returns normally, the engine ready for the next push.
C30_ErrorsDoNotStop ==
    /\ [][(pc = "propagate" /\ priority_queue # <<>> /\ FormulaRaises(Popped)) =>
             /\ pc' = "propagate"
             /\ last_push' = last_push /\ last_push.status = "ok"
             /\ errors' = errors
             /\ (in_queue \ {Popped}) \subseteq in_queue']_vars
    /\ [][pc = "propagate" =>
             \A n \in in_queue \ in_queue' :
                /\ n = Popped
                /\ Len(pass_evals) < MaxPassEvals =>
                      pass_evals'[Len(pass_evals')].name = n]_vars
    /\ [][(pc = "propagate" /\ pc' = "ready") =>
             /\ in_queue = {} /\ in_queue' = {} /\ priority_queue' = <<>>
             /\ last_push'.status = "ok"
             /\ time_step' = time_step + 1]_vars

\* the dict pushed to A made B raise, and C, D after it; the pass went on
\* to its end; then X was pushed 5, and the push was taken
C30_Witness ==
    /\ IsProgram(Layers)
    /\ pc = "ready"
    /\ time_step = 2
    /\ Value(Nm("A")).t = "struct"
    /\ Value(Nm("B")).t = "none" /\ Value(Nm("C")).t = "none" /\ Value(Nm("D")).t = "none"
    /\ last_push.name = Nm("X") /\ last_push.status = "ok"
    /\ Value(Nm("X")) = IntV(5)

\* The formula of the stream is l / r with an integer literal l and r a
\* source that holds the integer 0.
DividesIntByZero(t) ==
    LET e == DeclOf(t).expression IN
    /\ e.k = "bin" /\ e.operator = "/"
    /\ e.left.k = "lit" /\ e.right.k = "id"
    /\ Nm(e.right.name) \in Sources
    /\ Value(Nm(e.right.name)) = IntV(0)

\* C31  Integer division by zero: l / r with integers l and r = 0 is a
\* runtime error, so the formula of a stream l / r raises when r holds 0
\* and the stream never holds a number computed from it.
C31_IntDivisionByZero ==
    pc = "ready" =>
        \A t \in DOMAIN nodes :
            DividesIntByZero(t) => (FormulaRaises(t) /\ ~IsNumber(Value(t)))

\* The field names of the struct source p, and the records that have
\* exactly these fields.
FieldNames(p) == SeqToSet(nodes[p].formula.field_names)
IsRecordOf(p, items) == {items[i][1] : i \in 1..Len(items)} = FieldNames(p)
\* The record that the field sources of p hold.
FieldRecord(p) == StructV([f \in FieldNames(p) |-> Value(Dotted(p, f))])

\* C32  Whole-struct push: push_event(p, r) on a struct source p, with r a
\* record of the fields of p, sets every field source p.f to r.f and starts
\* one pass: the step itself recomputes nothing and changes no other node,
\* and p is in the heap; when the pass has ended, the synthetic stream p
\* holds the record of the field sources, which is r.
C32_WholeStructPush ==
    /\ [][pc = "ready" =>
             \A p \in DOMAIN nodes : \A items \in PushDicts :
                 (/\ IsStructSource(p) /\ ~nodes[p].is_source
                  /\ IsRecordOf(p, items)
                  /\ push_event(p, DictV(items), items)) =>
                     /\ \A f \in FieldNames(p) :
                           nodes'[Dotted(p, f)].cached_value = DictV(items).v[f]
                     /\ \A n \in DOMAIN nodes :
                           n \notin {Dotted(p, f) : f \in FieldNames(p)} =>
                               /\ nodes'[n].cached_value = nodes[n].cached_value
                               /\ nodes'[n].state = nodes[n].state
                     /\ pc' = "propagate" /\ time_step' = time_step
                     /\ pass_evals' = <<>>
                     /\ p \in in_queue'
                     /\ last_push'.status = "ok"]_vars
    /\ [][pc = "propagate" =>
             \A n \in DOMAIN nodes : nodes[n].is_source => nodes'[n] = nodes[n]]_vars
    /\ []((pc = "ready" /\ last_push.status = "ok" /\ last_push.is_record
             /\ IsStructSource(last_push.name) /\ ~nodes[last_push.name].is_source) =>
               /\ PyEq(Value(last_push.name), FieldRecord(last_push.name))
               /\ Value(last_push.name).t = "struct"
               /\ last_push.name \in PassNames)

\* p = {x: 3, y: 4} has been pushed {x: 0, y: 0}: both field sources hold
\* 0, p reads the record and d <- p.x * p.x + p.y * p.y reads 0
C32_Witness ==
    /\ IsProgram(StructSource)
    /\ pc = "ready"
    /\ time_step = 1
    /\ last_push = [name |-> Nm("p"), is_record |-> TRUE, status |-> "ok"]
    /\ Value(Dotted(Nm("p"), "x")) = IntV(0)
    /\ Value(Dotted(Nm("p"), "y")) = IntV(0)
    /\ Value(Nm("p")) = StructV([x |-> IntV(0), y |-> IntV(0)])
    /\ Value(Nm("d")) = IntV(0)

\* The name is a field source p.f of a struct source p.
IsFieldSource(n) ==
    /\ n \in DOMAIN nodes /\ nodes[n].is_source /\ HasDot(n)
    /\ IsStructSource(BaseName(n)) /\ BaseName(n) \in DOMAIN nodes
\* The nodes that subscriber edges reach from the nodes of S.
RECURSIVE SubscriberReach(_)
SubscriberReach(S) ==
    LET more == UNION {nodes[n].subscribers : n \in S} IN
    IF more \subseteq S THEN S ELSE SubscriberReach(S \cup more)
StructSources == {p \in DOMAIN nodes : IsStructSource(p) /\ ~nodes[p].is_source}

\* C33  Field-level push: push_event on a field source p.f changes the
\* cached value of no other source; its pass recomputes only nodes that
\* subscriber edges reach from p.f and leaves the value and the state of
\* every other node; between the pushes the synthetic stream p holds the
\* record of its field sources, so after the push it holds the record it
\* held with f alone replaced.
C33_FieldPush ==
    /\ [][(pc = "ready" /\ pc' = "propagate" /\ IsFieldSource(last_push'.name)) =>
             /\ \A n \in DOMAIN nodes :
                   n # last_push'.name =>
                       /\ nodes'[n].cached_value = nodes[n].cached_value
                       /\ nodes'[n].state = nodes[n].state
             /\ in_queue' \subseteq SubscriberReach({last_push'.name})]_vars
    /\ [][(pc = "propagate" /\ priority_queue # <<>> /\ IsFieldSource(last_push.name)) =>
             /\ Popped \in SubscriberReach({last_push.name}) \ {last_push.name}
             /\ \A n \in DOMAIN nodes :
                   (nodes[n].is_source \/ n \notin SubscriberReach({last_push.name})) =>
                       /\ nodes'[n].cached_value = nodes[n].cached_value
                       /\ nodes'[n].state = nodes[n].state]_vars
    /\ [](pc = "ready" =>
             \A p \in StructSources :
                 Value(p).t = "struct" /\ PyEq(Value(p), FieldRecord(p)))

\* counter.step has been pushed 5: counter.value holds its 0, the stream
\* counter reads {value: 0, step: 5}, and total, which is fired by
\* counter.value alone, has not been recomputed
C33_Witness ==
    /\ IsProgram(StructCounter)
    /\ pc = "ready"
    /\ time_step = 1
    /\ last_push.name = Dotted(Nm("counter"), "step") /\ last_push.status = "ok"
    /\ Value(Dotted(Nm("counter"), "step")) = IntV(5)
    /\ Value(Dotted(Nm("counter"), "value")) = IntV(0)
    /\ Value(Nm("counter")) = StructV([value |-> IntV(0), step |-> IntV(5)])
    /\ PassNames = {Nm("counter")}
    /\ Value(Nm("total")) = IntV(1)

InPushEvent(th) == threads[th].at # "idle"

\* C34  Serialized external pushes: a push_event called by the watcher's
\* callback thread never runs while a push_event called by the runner's
\* thread runs: at most one thread is inside push_event at any time.
C34_SerializedPushes ==
    \A t1, t2 \in Threads : (InPushEvent(t1) /\ InPushEvent(t2)) => t1 = t2

\* Structural compatibility of a declared with an inferred type.
RECURSIVE StructurallyCompatible(_, _)
StructurallyCompatible(declared, inferred) ==
    \/ declared = BasicType("any")
    \/ inferred = BasicType("any")
    \/ /\ declared.k = "basic" /\ inferred.k = "basic"
       /\ \/ declared.name = inferred.name
          \/ declared.name = "float" /\ inferred.name = "int"
    \/ /\ declared.k = "array" /\ inferred.k = "array"
       /\ StructurallyCompatible(declared.element_type, inferred.element_type)
    \/ /\ declared.k = "struct" /\ inferred.k = "struct"
       /\ DOMAIN declared.fields = DOMAIN inferred.fields
       /\ \A f \in DOMAIN declared.fields :
             StructurallyCompatible(declared.fields[f], inferred.fields[f])

\* C35  Type compatibility is structural: _types_compatible(declared,
\* inferred) is true exactly when one side is any, or both are the same
\* basic type, or declared is float and inferred is int, or both are
\* arrays of compatible element types, or both are structs with the same
\* field names and pairwise compatible field types.
C35_StructuralCompatibility ==
    typer.at = "compatible" =>
        (typer.result <=> StructurallyCompatible(typer.t1, typer.t2))

\* The least upper bound of two types: any with T is T, int with float is
\* float, T with T is T, and any other two types give any.
LeastUpperBound(t1, t2) ==
    IF t1 = BasicType("any") THEN t2
    ELSE IF t2 = BasicType("any") THEN t1
    ELSE IF {t1, t2} = {BasicType("int"), BasicType("float")} THEN BasicType("float")
    ELSE IF t1 = t2 THEN t1
    ELSE BasicType("any")

\* C36  Conditional type: the type inferred for if c then A else B end is
\* the least upper bound of the types of A and B.
C36_ConditionalType ==
    typer.at = "if" => typer.result = LeastUpperBound(typer.t1, typer.t2)

\* The value the formula of n gives on the values its dependencies hold
\* now, with the temporal state a node has before its first evaluation.
SnapshotValue(n) == _recompute(nodes, [nodes[n] EXCEPT !.state = NoneV])

Untriggered == {n \in DOMAIN nodes : ~nodes[n].is_source /\ ~nodes[n].has_trigger}

\* C37  Consistent initial snapshot: after compile succeeds, every
\* non-source node without a trigger holds the value of its formula on the
\* values its dependencies hold.
C37_InitialSnapshot ==
    AfterCompile => \A n \in Untriggered : PyEq(Value(n), SnapshotValue(n))

\* This step recomputes the stream t.
Fires(t) == pc = "propagate" /\ priority_queue # <<>> /\ Popped = t

\* The value-only dependencies of a triggered stream: what it reads and is
\* not subscribed to.
ValueOnly(t) == {d \in nodes[t].dependencies \cap DOMAIN nodes : t \notin nodes[d].subscribers}

\* The values the formula of t is handed by this step are the cached values
\* of its dependencies at this moment.
ReadsFresh(t) ==
    Len(pass_evals) < MaxPassEvals =>
        \A d \in ValueOnly(t) : pass_evals'[Len(pass_evals')].reads[d] = Value(d)

\* The stream is pre(itself, k) + d, with d one of its value-only
\* dependencies.
AddsValueOnly(t) ==
    /\ IsPrePlus(t)
    /\ DeclOf(t).expression.right.k # "lit"
    /\ _get_field_path(DeclOf(t).expression.right) \in ValueOnly(t)

\* C38  Value-only dependencies are read fresh: when a triggered stream
\* fires, its formula reads the cached value each dependency holds then,
\* so a stream without state takes the value of its formula on them, and a
\* stream total <- pre(total, k) + step on X takes its previous value plus
\* the value step holds then.
C38_FreshValueReads ==
    [][\A t \in TriggeredNodes : Fires(t) =>
          /\ ReadsFresh(t)
          /\ ~nodes[t].is_stateful => PyEq(nodes'[t].cached_value, FormulaValue(t))
          /\ (AddsValueOnly(t) /\ Value(t).t = "int") =>
                /\ nodes'[t].cached_value.t = "int"
                /\ nodes'[t].cached_value.v =
                      Value(t).v + OperandValue(DeclOf(t).expression.right)]_vars

\* The queued nodes of least rank: the ones the heap may pop next.
MinRank(ns, S) == {n \in S : \A m \in S : ns[n].rank <= ns[m].rank}

\* One iteration of propagate() that pops n.
PoppedChanges(ns, n) == ~PyEq(_recompute(ns, ns[n]), ns[n].cached_value)

PoppedNodes(ns, n) ==
    [ns EXCEPT ![n].state = RecomputedState(ns, ns[n]),
               ![n].cached_value =
                   IF PoppedChanges(ns, n) THEN _recompute(ns, ns[n]) ELSE @]

\* The cached value and temporal state of every node.
Snapshot(ns) == [n \in DOMAIN ns |-> <<ns[n].cached_value, ns[n].state>>]

\* What the rest of the pass can leave, over every order in which nodes of
\* equal rank are popped (passes of more than fuel iterations left out).
RECURSIVE Outcomes(_, _, _)
Outcomes(ns, S, fuel) ==
    IF S = {} THEN {Snapshot(ns)}
    ELSE IF fuel = 0 THEN {}
    ELSE UNION {Outcomes(PoppedNodes(ns, n),
                         (S \ {n}) \cup (IF PoppedChanges(ns, n)
                                          THEN ns[n].subscribers ELSE {}),
                         fuel - 1) : n \in MinRank(ns, S)}

\* C39  Tie-order independence: the heap orders items by rank alone, and
\* whatever the order in which nodes of equal rank are popped, the pass
\* leaves the same cached value and temporal state in every node.
C39_TieOrderIndependence ==
    pc = "propagate" => Cardinality(Outcomes(nodes, in_queue, MaxPassEvals)) <= 1

\* The nodes of a reported path, without the closing repetition of its
\* first node.
CycleNodes(path) == SubSeq(path, 1, Len(path) - 1)

\* C40  No duplicate cycle reports: no two of the paths find_all_cycles has
\* collected are rotations of one another, so no simple cycle is reported
\* twice.
C40_NoDuplicateCycles ==
    \A i, j \in 1..Len(detector.cycles) :
        i # j => ~IsRotation(detector.cycles[i], CycleNodes(detector.cycles[j]))

====
